---- MODULE Spec2Model ----
(***************************************************************************)
(* Claim verification pipeline of the Unite-AI service                     *)
(* (src/src/services/base_llm_service.py and its collaborators).           *)
(*                                                                         *)
(* Texts are TLA+ strings; a character is a string of length 1.  JSON      *)
(* values are tagged records of one shape, so that any two of them can be  *)
(* compared.                                                               *)
(***************************************************************************)
EXTENDS Integers, Sequences, FiniteSets, TLC

(***************************************************************************)
(* Text helpers (the Python str operations the code uses).                 *)
(***************************************************************************)

\* s[i] of Python, 1-based; "" outside the text.
Ch(s, i) == IF i >= 1 /\ i <= Len(s) THEN SubSeq(s, i, i) ELSE ""

\* s[i-1:j-1] of Python as a 1-based inclusive span.
Slice(s, i, j) == IF i > j THEN "" ELSE SubSeq(s, i, j)

WS == {" ", "\n", "\t", "\r"}

IsWs(c) == c \in WS

\* whether t occurs in s starting at position i
StartsAt(s, t, i) == i >= 1 /\ i + Len(t) - 1 <= Len(s) /\ SubSeq(s, i, i + Len(t) - 1) = t

\* the containment test (t in s) of Python
Contains(s, t) == \E i \in 1..(Len(s) - Len(t) + 1) : StartsAt(s, t, i)

\* s.find(t): the first position of t in s, 0 when absent (Python: -1)
Find(s, t) ==
  IF Contains(s, t)
  THEN CHOOSE i \in 1..Len(s) : StartsAt(s, t, i) /\ \A j \in 1..(i - 1) : ~StartsAt(s, t, j)
  ELSE 0

\* s.rfind(t): the last position of t in s, 0 when absent
RFind(s, t) ==
  IF Contains(s, t)
  THEN CHOOSE i \in 1..Len(s) : StartsAt(s, t, i) /\ \A j \in (i + 1)..Len(s) : ~StartsAt(s, t, j)
  ELSE 0

\* first position >= i whose character is in chars (Len(s)+1 when there is none)
NextIn(s, i, chars) ==
  CHOOSE j \in i..(Len(s) + 1) :
    /\ j = Len(s) + 1 \/ Ch(s, j) \in chars
    /\ \A k \in i..(j - 1) : Ch(s, k) \notin chars

\* first position >= i whose character is not in chars (Len(s)+1 when there is none)
NextNotIn(s, i, chars) ==
  CHOOSE j \in i..(Len(s) + 1) :
    /\ j = Len(s) + 1 \/ Ch(s, j) \notin chars
    /\ \A k \in i..(j - 1) : Ch(s, k) \in chars

\* the characters of s as a sequence
Chars(s) == [k \in 1..Len(s) |-> Ch(s, k)]

\* first position >= i that holds no whitespace (Len(s)+1 when there is none)
SkipWs(s, i) == IF i > Len(s) THEN i ELSE NextNotIn(s, i, WS)

\* last position <= i that holds no whitespace (0 when there is none)
SkipWsBack(s, i) ==
  CHOOSE n \in 0..i :
    /\ n = 0 \/ Ch(s, n) \notin WS
    /\ \A k \in (n + 1)..i : Ch(s, k) \in WS

\* s.strip()
Strip(s) == Slice(s, SkipWs(s, 1), SkipWsBack(s, Len(s)))

Upper == <<"A", "B", "C", "D", "E", "F", "G", "H", "I", "J", "K", "L", "M",
           "N", "O", "P", "Q", "R", "S", "T", "U", "V", "W", "X", "Y", "Z">>

Lower == <<"a", "b", "c", "d", "e", "f", "g", "h", "i", "j", "k", "l", "m",
           "n", "o", "p", "q", "r", "s", "t", "u", "v", "w", "x", "y", "z">>

IsUpper(c) == \E k \in 1..26 : Upper[k] = c

IsLower(c) == \E k \in 1..26 : Lower[k] = c

LowerCh(c) == IF IsUpper(c) THEN Lower[CHOOSE k \in 1..26 : Upper[k] = c] ELSE c

\* s.lower()
RECURSIVE ToLower(_)
ToLower(s) ==
  IF Len(s) <= 1 THEN LowerCh(s)
  ELSE ToLower(SubSeq(s, 1, Len(s) \div 2)) \o ToLower(SubSeq(s, Len(s) \div 2 + 1, Len(s)))

\* s.split() as a sequence of words, from position i on
WordEnd(s, i) == NextIn(s, i, WS)

RECURSIVE SplitFrom(_, _)
SplitFrom(s, i) ==
  LET b == SkipWs(s, i)
  IN IF b > Len(s) THEN <<>>
     ELSE LET e == WordEnd(s, b) IN <<Slice(s, b, e - 1)>> \o SplitFrom(s, e)

Split(s) == SplitFrom(s, 1)

SeqToSet(q) == {q[k] : k \in 1..Len(q)}

(***************************************************************************)
(* JSON values and json.loads (the Python standard library decoder the     *)
(* parser calls).  The texts of this model carry no \b or \uXXXX       *)
(* escape, no fraction and no exponent.                                    *)
(***************************************************************************)

JStr(s) == [t |-> "str", s |-> s, a |-> <<>>]

JArr(a) == [t |-> "arr", s |-> "", a |-> a]

JObj(pairs) == [t |-> "obj", s |-> "", a |-> pairs]

JLit(name) == [t |-> "lit", s |-> name, a |-> <<>>]

JNum(digits) == [t |-> "num", s |-> digits, a |-> <<>>]

JPair(k, v) == [t |-> "pair", s |-> k, a |-> <<v>>]

JNone == JLit("null")

\* The nesting depth at which the decoder's recursion exhausts the
\* interpreter's stack (RecursionError, not json.JSONDecodeError), scaled down.
PyRecursionDepth == 3

Ok(v, p) == [st |-> "ok", val |-> v, pos |-> p]

Err(kind) == [st |-> kind, val |-> JNone, pos |-> 0]

Digits == {"0", "1", "2", "3", "4", "5", "6", "7", "8", "9"}

Literals == <<"null", "true", "false", "NaN", "Infinity", "-Infinity">>

\* the body of a JSON string from position j on (the opening quote is read)
\* (plain characters are taken a run at a time)
RECURSIVE ScanString(_, _, _)
ScanString(s, j, acc) ==
  LET c == Ch(s, j)
      e == Ch(s, j + 1)
      n == NextIn(s, j, {"\"", "\\", "\n", "\t", "\r"})
  IN IF j > Len(s) THEN Err("decode")
     ELSE IF c = "\"" THEN Ok(JStr(acc), j + 1)
     ELSE IF c = "\\"
       THEN IF e \in {"\"", "\\", "/"} THEN ScanString(s, j + 2, acc \o e)
            ELSE IF e = "n" THEN ScanString(s, j + 2, acc \o "\n")
            ELSE IF e = "t" THEN ScanString(s, j + 2, acc \o "\t")
            ELSE IF e = "r" THEN ScanString(s, j + 2, acc \o "\r")
            ELSE IF e = "f" THEN ScanString(s, j + 2, acc \o "\f")
            ELSE Err("decode")
     ELSE IF c \in {"\n", "\t", "\r"} THEN Err("decode")
     ELSE ScanString(s, n, acc \o Slice(s, j, n - 1))

DigitsEnd(s, i) == IF i > Len(s) THEN i ELSE NextNotIn(s, i, Digits)

\* an integer at position i: -?(0|[1-9][0-9]*)
ScanNumber(s, i) ==
  LET b == IF Ch(s, i) = "-" THEN i + 1 ELSE i
      e == IF Ch(s, b) = "0" THEN b + 1 ELSE DigitsEnd(s, b)
  IN IF e = b THEN Err("decode") ELSE Ok(JNum(Slice(s, i, e - 1)), e)

RECURSIVE ParseValue(_, _, _)
RECURSIVE ArrayItems(_, _, _, _)
RECURSIVE ObjectItems(_, _, _, _)

\* the value at position i, inside d enclosing arrays and objects
ParseValue(s, i, d) ==
  LET c == Ch(s, i)
  IN IF c = "\"" THEN ScanString(s, i + 1, "")
     ELSE IF c \in {"{", "["}
       THEN IF d >= PyRecursionDepth THEN Err("recursion")
            ELSE LET j == SkipWs(s, i + 1)
                 IN IF c = "{"
                    THEN IF Ch(s, j) = "}" THEN Ok(JObj(<<>>), j + 1)
                         ELSE ObjectItems(s, j, d + 1, <<>>)
                    ELSE IF Ch(s, j) = "]" THEN Ok(JArr(<<>>), j + 1)
                         ELSE ArrayItems(s, j, d + 1, <<>>)
     ELSE IF \E k \in 1..Len(Literals) : StartsAt(s, Literals[k], i)
       THEN LET k == CHOOSE k \in 1..Len(Literals) : StartsAt(s, Literals[k], i)
            IN Ok(JLit(Literals[k]), i + Len(Literals[k]))
     ELSE ScanNumber(s, i)

ArrayItems(s, j, d, acc) ==
  LET r == ParseValue(s, j, d)
      k == SkipWs(s, r.pos)
  IN IF r.st # "ok" THEN r
     ELSE IF Ch(s, k) = "," THEN ArrayItems(s, SkipWs(s, k + 1), d, Append(acc, r.val))
     ELSE IF Ch(s, k) = "]" THEN Ok(JArr(Append(acc, r.val)), k + 1)
     ELSE Err("decode")

ObjectItems(s, j, d, acc) ==
  LET key == ScanString(s, j + 1, "")
      k == SkipWs(s, key.pos)
      v == ParseValue(s, SkipWs(s, k + 1), d)
      m == SkipWs(s, v.pos)
  IN IF Ch(s, j) # "\"" THEN Err("decode")
     ELSE IF key.st # "ok" THEN key
     ELSE IF Ch(s, k) # ":" THEN Err("decode")
     ELSE IF v.st # "ok" THEN v
     ELSE IF Ch(s, m) = "," THEN ObjectItems(s, SkipWs(s, m + 1), d, Append(acc, JPair(key.val.s, v.val)))
     ELSE IF Ch(s, m) = "}" THEN Ok(JObj(Append(acc, JPair(key.val.s, v.val))), m + 1)
     ELSE Err("decode")

\* json.loads(s): st is "ok", "decode" (json.JSONDecodeError) or "recursion"
\* (RecursionError)
JsonLoads(s) ==
  LET r == ParseValue(s, SkipWs(s, 1), 0)
  IN IF r.st # "ok" THEN r
     ELSE IF SkipWs(s, r.pos) <= Len(s) THEN Err("decode")
     ELSE r

\* data.get(key, default) of a decoded object: the last pair of a repeated key
HasKey(obj, key) == \E k \in 1..Len(obj.a) : obj.a[k].s = key

Get(obj, key, default) ==
  IF HasKey(obj, key)
  THEN LET k == CHOOSE k \in 1..Len(obj.a) :
                  obj.a[k].s = key /\ \A n \in (k + 1)..Len(obj.a) : obj.a[n].s # key
       IN obj.a[k].a[1]
  ELSE default

\* Python truth value of a decoded value
Truthy(v) ==
  CASE v.t = "str" -> v.s # ""
    [] v.t = "arr" -> v.a # <<>>
    [] v.t = "obj" -> v.a # <<>>
    [] v.t = "num" -> v.s \notin {"0", "-0"}
    [] OTHER -> v.s \notin {"null", "false"}

(***************************************************************************)
(* Verdict parser: _clean_json_response, the brace-balanced extraction,    *)
(* _repair_json_strings, _auto_map_sources_from_results and                *)
(* _parse_veracity_response.                                               *)
(***************************************************************************)

MIN_RELEVANCE_SCORE == 2

AUTO_MAP_FALLBACK_SOURCES == 2

SNIPPET_CUT == 200

\* The fence marker: "~" stands for the backquote character (U+0060), which a
\* TLA+ string cannot hold; no text of the model uses "~" otherwise.
Fence == "~~~"

Min(a, b) == IF a < b THEN a ELSE b

IsLineStart(s, i) == i = 1 \/ Ch(s, i - 1) = "\n"

LowerRunEnd(s, i) == IF i > Len(s) THEN i ELSE NextNotIn(s, i, SeqToSet(Lower))

\* re.sub of line 436: a fence at a line start, its [a-z]* tag and the
\* whitespace after it are removed (MULTILINE), from position i on
RECURSIVE SubFenceOpen(_, _, _)
SubFenceOpen(s, i, acc) ==
  LET starts == {k \in i..Len(s) : IsLineStart(s, k) /\ StartsAt(s, Fence, k)}
      m == CHOOSE k \in starts : \A n \in starts : k <= n
  IN IF starts = {} THEN acc \o Slice(s, i, Len(s))
     ELSE SubFenceOpen(s, SkipWs(s, LowerRunEnd(s, m + 3)), acc \o Slice(s, i, m - 1))

\* where a match of line 437's pattern (whitespace, fence, whitespace, end of
\* line) that starts at i ends; 0: no match at i.  The end-of-line anchor
\* holds at the end of the text and before a newline.
FenceCloseEnd(s, i) ==
  LET w == SkipWs(s, i)
      q == SkipWs(s, w + 3)
      nls == {n \in (w + 3)..(q - 1) : Ch(s, n) = "\n"}
  IN IF ~StartsAt(s, Fence, w) THEN 0
     ELSE IF q > Len(s) THEN q
     ELSE IF nls # {} THEN CHOOSE n \in nls : \A m \in nls : m <= n
     ELSE 0

\* re.sub of line 437 from position i on
RECURSIVE SubFenceClose(_, _, _)
SubFenceClose(s, i, acc) ==
  LET starts == {k \in i..Len(s) : FenceCloseEnd(s, k) # 0}
      m == CHOOSE k \in starts : \A n \in starts : k <= n
  IN IF starts = {} THEN acc \o Slice(s, i, Len(s))
     ELSE SubFenceClose(s, FenceCloseEnd(s, m), acc \o Slice(s, i, m - 1))

_clean_json_response(response_text) ==
  LET cleaned == Strip(response_text)
  IN IF StartsAt(cleaned, Fence, 1)
     THEN Strip(SubFenceClose(SubFenceOpen(cleaned, 1, ""), 1, ""))
     ELSE cleaned

\* the loop without its in_string test: every brace is counted
ScanStepCountingStrings(s, st) ==
  LET char == Ch(s, st.i)
  IN CASE st.escape_next -> [st EXCEPT !.i = @ + 1, !.escape_next = FALSE]
       [] char = "\\" -> [st EXCEPT !.i = @ + 1, !.escape_next = TRUE]
       [] char = "{" -> [st EXCEPT !.i = @ + 1, !.brace_count = @ + 1]
       [] char = "}" ->
            IF st.brace_count - 1 = 0
            THEN [st EXCEPT !.brace_count = 0, !.end_pos = st.i]
            ELSE [st EXCEPT !.i = @ + 1, !.brace_count = @ - 1]
       [] OTHER -> [st EXCEPT !.i = NextIn(s, st.i + 1, {"\\", "{", "}"})]

\* The loop of lines 460-478.  A scan state holds the loop variables: i the
\* position to read next, end_pos the position of the closing brace once
\* brace_count has returned to zero (0 before).  One step reads one character
\* (a run of characters that change nothing is passed in one step).
ScanStep(s, st) ==
  LET char == Ch(s, st.i)
  IN CASE st.escape_next -> [st EXCEPT !.i = @ + 1, !.escape_next = FALSE]
       [] char = "\\" -> [st EXCEPT !.i = @ + 1, !.escape_next = TRUE]
       [] char = "\"" -> [st EXCEPT !.i = @ + 1, !.in_string = ~@]
       [] ~st.in_string /\ char = "{" -> [st EXCEPT !.i = @ + 1, !.brace_count = @ + 1]
       [] ~st.in_string /\ char = "}" ->
            IF st.brace_count - 1 = 0
            THEN [st EXCEPT !.brace_count = 0, !.end_pos = st.i]
            ELSE [st EXCEPT !.i = @ + 1, !.brace_count = @ - 1]
       [] OTHER -> [st EXCEPT !.i = NextIn(s, st.i + 1, {"\\", "\"", "{", "}"})]

RECURSIVE ScanRun(_, _)
ScanRun(s, st) ==
  IF st.i > Len(s) \/ st.end_pos # 0 THEN st ELSE ScanRun(s, ScanStep(s, st))

\* the last '}' of the text, whatever the braces before it
BalancedEndLast(s, first_brace) == RFind(s, "}")

\* the position of the '}' at which brace_count returns to zero, scanning from
\* first_brace; 0 when the scan ends without one
BalancedEnd(s, first_brace) ==
  ScanRun(s, [i |-> first_brace, brace_count |-> 0, in_string |-> FALSE,
              escape_next |-> FALSE, end_pos |-> 0]).end_pos

\* lines 454-484: the span handed to the second json.loads
ExtractJsonSpan(cleaned) ==
  LET first_brace == Find(cleaned, "{")
      end_brace == BalancedEnd(cleaned, first_brace)
      last_brace == RFind(cleaned, "}")
  IN IF first_brace = 0 THEN cleaned
     ELSE IF end_brace # 0 THEN Slice(cleaned, first_brace, end_brace)
     ELSE IF last_brace > first_brace THEN Slice(cleaned, first_brace, last_brace)
     ELSE cleaned

\* ''.join(parts)
RECURSIVE Join(_)
Join(parts) ==
  IF parts = <<>> THEN ""
  ELSE IF Len(parts) = 1 THEN parts[1]
  ELSE Join(SubSeq(parts, 1, Len(parts) \div 2)) \o Join(SubSeq(parts, Len(parts) \div 2 + 1, Len(parts)))

\* lines 557-564: whether the quote about to be emitted stands where a value
\* is expected, by the four emitted pieces before the trailing whitespace
LastNonWs(result, j) ==
  CHOOSE n \in 0..j :
    /\ n = 0 \/ result[n] \notin WS
    /\ \A k \in (n + 1)..j : result[k] \in WS

IsValuePosition(result) ==
  LET j == LastNonWs(result, Len(result))
      lookback == Join(SubSeq(result, IF j - 3 > 1 THEN j - 3 ELSE 1, j))
  IN j >= 1 /\ (Contains(lookback, ":") \/ StartsAt(Strip(lookback), ",", 1))

\* One pass of the loop of lines 541-575 over the state (i, result, in_string,
\* escape_next); result is the list of emitted pieces.  A run of characters
\* copied unchanged is taken in one step.
RepairStep(s, st) ==
  LET char == Ch(s, st.i)
      n == NextIn(s, st.i + 1, {"\\", "\""})
  IN CASE st.escape_next ->
            [st EXCEPT !.i = @ + 1, !.result = Append(@, char), !.escape_next = FALSE]
       [] char = "\\" ->
            [st EXCEPT !.i = @ + 1, !.result = Append(@, char), !.escape_next = TRUE]
       [] char = "\"" ->
            IF st.in_string /\ IsValuePosition(st.result)
            THEN [st EXCEPT !.i = @ + 1, !.result = Append(@, "\\\"")]
            ELSE [st EXCEPT !.i = @ + 1, !.result = Append(@, char), !.in_string = ~@]
       [] OTHER ->
            [st EXCEPT !.i = n, !.result = @ \o Chars(Slice(s, st.i, n - 1))]

RECURSIVE RepairRun(_, _)
RepairRun(s, st) == IF st.i > Len(s) THEN st ELSE RepairRun(s, RepairStep(s, st))

_repair_json_strings(json_str) ==
  Join(RepairRun(json_str, [i |-> 1, result |-> <<>>, in_string |-> FALSE,
                            escape_next |-> FALSE]).result)

\* a Source that carries the whole snippet
SourceOfWhole(result) ==
  [title |-> JStr(result.title), url |-> JStr(result.url), snippet |-> JStr(result.snippet)]

\* A Source built from an evidence item, its snippet cut to 200 characters.
SourceOf(result) ==
  [title |-> JStr(result.title), url |-> JStr(result.url),
   snippet |-> JStr(Slice(result.snippet, 1, Min(SNIPPET_CUT, Len(result.snippet))))]

\* relevance of line 593: the justification words found in snippet or title
Relevance(result, justification_words) ==
  Cardinality({w \in justification_words :
     Contains(ToLower(result.snippet), w) \/ Contains(ToLower(result.title), w)})

\* reconciliation without the fallback of lines 602-608
AutoMapNoFallback(justification, buffered) ==
  LET justification_words == {w \in SeqToSet(Split(ToLower(justification))) : Len(w) > 4}
  IN SelectSeq([k \in 1..Len(buffered) |-> SourceOf(buffered[k])],
               LAMBDA source : \E k \in 1..Len(buffered) :
                 /\ SourceOf(buffered[k]) = source
                 /\ Relevance(buffered[k], justification_words) >= MIN_RELEVANCE_SCORE)

\* _auto_map_sources_from_results, the justification being a str
_auto_map_sources_from_results(justification, buffered) ==
  LET justification_words == {w \in SeqToSet(Split(ToLower(justification))) : Len(w) > 4}
      hits == {k \in 1..Len(buffered) :
                 Relevance(buffered[k], justification_words) >= MIN_RELEVANCE_SCORE}
      mapped == [k \in 1..Len(buffered) |-> SourceOf(buffered[k])]
  IN IF buffered = <<>> THEN <<>>
     ELSE IF hits # {}
       THEN LET RECURSIVE Pick(_)
                Pick(k) == IF k > Len(buffered) THEN <<>>
                           ELSE (IF k \in hits THEN <<mapped[k]>> ELSE <<>>) \o Pick(k + 1)
            IN Pick(1)
       ELSE SubSeq(mapped, 1, Min(AUTO_MAP_FALLBACK_SOURCES, Len(buffered)))

VALID_STATUSES == {"Factually Correct", "Untruth", "Misleading", "Unverifiable"}

Returned(status, justification, method, sources) ==
  [kind |-> "return", status |-> status, justification |-> justification,
   verification_method |-> method, sources |-> sources]

\* An exception leaving the function.
Raised == [kind |-> "raise", status |-> "", justification |-> JNone,
           verification_method |-> JNone, sources |-> <<>>]

ParseFailure == Returned("Unverifiable", JStr("Invalid JSON response from analysis"),
                         JStr("Parse error"), <<>>)

ProcessingFailure == Returned("Unverifiable", JStr("Error processing analysis"),
                              JStr("Parse error"), <<>>)

\* the reported sources reduced to their url
RECURSIVE NormaliseSourcesUrlOnly(_)
NormaliseSourcesUrlOnly(entries) ==
  IF entries = <<>> THEN <<>>
  ELSE LET e == Head(entries)
       IN (IF e.t = "obj" /\ Truthy(Get(e, "url", JNone))
           THEN <<[title |-> JStr(""), url |-> Get(e, "url", JStr("")), snippet |-> JStr("")]>>
           ELSE <<>>) \o NormaliseSourcesUrlOnly(Tail(entries))

\* the reported sources kept whether or not they carry a url
RECURSIVE NormaliseSourcesUnchecked(_)
NormaliseSourcesUnchecked(entries) ==
  IF entries = <<>> THEN <<>>
  ELSE LET e == Head(entries)
       IN (IF e.t = "obj"
           THEN <<[title |-> Get(e, "title", JStr("")),
                   url |-> Get(e, "url", JStr("")),
                   snippet |-> Get(e, "snippet", JStr(""))]>>
           ELSE <<>>) \o NormaliseSourcesUnchecked(Tail(entries))

\* lines 504-517: the sources the response reports, normalised
RECURSIVE NormaliseSources(_)
NormaliseSources(entries) ==
  IF entries = <<>> THEN <<>>
  ELSE LET e == Head(entries)
       IN (IF e.t = "obj" /\ Truthy(Get(e, "url", JNone))
           THEN <<[title |-> Get(e, "title", JStr("")),
                   url |-> Get(e, "url", JStr("")),
                   snippet |-> Get(e, "snippet", JStr(""))]>>
           ELSE <<>>) \o NormaliseSources(Tail(entries))

\* the reported status passed through unchecked
CoerceStatusVerbatim(status) == status.s

\* the status check of lines 523-526
CoerceStatus(status) ==
  IF status.t = "str" /\ status.s \in VALID_STATUSES THEN status.s ELSE "Unverifiable"

\* lines 504-517: the local variable sources before reconciliation
ReportedSources(data) ==
  LET reported == Get(data, "sources", JArr(<<>>))
  IN IF reported.t # "arr" THEN <<>> ELSE NormaliseSources(reported.a)

\* lines 500-532: the verdict from the decoded data
ExtractFields(data, buffered) ==
  LET status == Get(data, "status", JStr("Unverifiable"))
      justification == Get(data, "justification", JStr("No analysis available"))
      verification_method == Get(data, "verification_method", JStr("Web search"))
      sources == ReportedSources(data)
  IN IF data.t # "obj" THEN ProcessingFailure
     ELSE IF sources = <<>> /\ buffered # <<>>
       THEN IF justification.t # "str" THEN ProcessingFailure
            ELSE Returned(CoerceStatus(status), justification, verification_method,
                          _auto_map_sources_from_results(justification.s, buffered))
     ELSE Returned(CoerceStatus(status), justification, verification_method, sources)

\* lines 445-498: the data the parser decodes, by the first of its three
\* attempts that succeeds
DecodedData(response_text) ==
  LET direct == JsonLoads(response_text)
      cleaned == ExtractJsonSpan(_clean_json_response(response_text))
      second == JsonLoads(cleaned)
      third == JsonLoads(_repair_json_strings(cleaned))
  IN IF direct.st # "decode" THEN direct
     ELSE IF second.st # "decode" THEN second
     ELSE third

\* _parse_veracity_response with self._current_search_results = buffered
_parse_veracity_response(response_text, buffered) ==
  LET direct == JsonLoads(response_text)
      cleaned == ExtractJsonSpan(_clean_json_response(response_text))
      second == JsonLoads(cleaned)
      third == JsonLoads(_repair_json_strings(cleaned))
  IN IF direct.st = "ok" THEN ExtractFields(direct.val, buffered)
     ELSE IF direct.st # "decode" THEN Raised
     ELSE IF second.st = "ok" THEN ExtractFields(second.val, buffered)
     ELSE IF second.st # "decode" THEN Raised
     ELSE IF third.st = "ok" THEN ExtractFields(third.val, buffered)
     ELSE ParseFailure

(***************************************************************************)
(* Query expansion, search, merge and ranking:                             *)
(* _extract_all_search_queries, SearchService.search, the merge of         *)
(* _perform_web_searches and _filter_search_results.                       *)
(***************************************************************************)

MAX_SEARCH_QUERIES == 8

RESULTS_PER_QUERY == 3

MAX_FILTERED_RESULTS == 5

MIN_SNIPPET_LENGTH == 50

MIN_URL_LENGTH == 5

MIN_WORD_LENGTH_FOR_MATCHING == 3

LONG_SNIPPET_LENGTH == 100

MIN_NAME_LENGTH == 3

MIN_QUERY_LENGTH == 2

\* \w of the regular expressions, on the ASCII texts of the model
IsWordCh(c) == IsUpper(c) \/ IsLower(c) \/ c \in Digits \/ c = "_"

\* [A-Z][a-z]+ at position i: the position after its longest match, 0 if none
CapWordEnd(s, i) ==
  IF IsUpper(Ch(s, i)) /\ IsLower(Ch(s, i + 1))
  THEN NextNotIn(s, i + 1, SeqToSet(Lower))
  ELSE 0

\* The ends of the prefixes [A-Z][a-z]+(\s+[A-Z][a-z]+)^k, k = 0, 1, ..., of a
\* match that starts at i, from the word that ends before position e on.
RECURSIVE NameEnds(_, _)
NameEnds(s, e) ==
  LET w == SkipWs(s, e)
      n == CapWordEnd(s, w)
  IN IF w > e /\ n # 0 THEN {e} \cup NameEnds(s, n) ELSE {e}

\* The match of \b[A-Z][a-z]+(?:\s+[A-Z][a-z]+)*\b that starts at i: the
\* position after it, 0 if there is none.  The repetition is greedy and gives
\* words back until a word boundary follows.
NameMatchEnd(s, i) ==
  LET first == CapWordEnd(s, i)
      ends == {e \in NameEnds(s, first) : ~IsWordCh(Ch(s, e))}
  IN IF IsWordCh(Ch(s, i - 1)) \/ first = 0 \/ ends = {} THEN 0
     ELSE CHOOSE e \in ends : \A x \in ends : x <= e

\* re.findall of line 315 from position i on
RECURSIVE FindProperNouns(_, _)
FindProperNouns(s, i) ==
  LET starts == {k \in i..Len(s) : NameMatchEnd(s, k) # 0}
      m == CHOOSE k \in starts : \A n \in starts : k <= n
  IN IF starts = {} THEN <<>>
     ELSE <<Slice(s, m, NameMatchEnd(s, m) - 1)>> \o FindProperNouns(s, NameMatchEnd(s, m))

\* re.findall(r'\b(2024|2025|2026)\b', claim) from position i on
YearAt(s, i) ==
  /\ \E y \in {"2024", "2025", "2026"} : StartsAt(s, y, i)
  /\ ~IsWordCh(Ch(s, i - 1))
  /\ ~IsWordCh(Ch(s, i + 4))

RECURSIVE FindYears(_, _)
FindYears(s, i) ==
  LET starts == {k \in i..Len(s) : YearAt(s, k)}
      m == CHOOSE k \in starts : \A n \in starts : k <= n
  IN IF starts = {} THEN <<>>
     ELSE <<Slice(s, m, m + 3)>> \o FindYears(s, m + 4)

ContainsAny(s, words) == \E w \in words : Contains(s, w)

\* lines 317-335: the queries one proper noun adds
NameQueries(name, claim_lower, language) ==
  IF Len(name) <= MIN_NAME_LENGTH THEN <<>>
  ELSE <<name>> \o
       (IF language = "de"
        THEN (IF ContainsAny(claim_lower, {"bundeskanzler", "kanzler"})
              THEN <<name \o " Bundeskanzler Deutschland", "Bundeskanzler Deutschland aktuell">>
              ELSE <<>>)
             \o (IF ContainsAny(claim_lower, {"buch", "autobiografie", "biografie"})
                 THEN <<name \o " Buch Autobiografie", name \o " Buch 2024 2025">>
                 ELSE <<>>)
             \o (IF Contains(ToLower(name), "merkel")
                 THEN <<"Angela Merkel Autobiografie Freiheit">>
                 ELSE <<>>)
        ELSE (IF Contains(claim_lower, "chancellor")
              THEN <<name \o " Chancellor Germany", "Germany Chancellor current">>
              ELSE <<>>)
             \o (IF ContainsAny(claim_lower, {"book", "autobiography", "biography"})
                 THEN <<name \o " book autobiography">>
                 ELSE <<>>))

RECURSIVE FlatMapNames(_, _, _)
FlatMapNames(names, claim_lower, language) ==
  IF names = <<>> THEN <<>>
  ELSE NameQueries(Head(names), claim_lower, language)
       \o FlatMapNames(Tail(names), claim_lower, language)

\* lines 353-358: first occurrences only, queries of at most 2 characters dropped
RECURSIVE UniqueQueries(_, _)
UniqueQueries(queries, seen) ==
  IF queries = <<>> THEN <<>>
  ELSE IF Head(queries) \notin seen /\ Len(Head(queries)) > MIN_QUERY_LENGTH
    THEN <<Head(queries)>> \o UniqueQueries(Tail(queries), seen \cup {Head(queries)})
    ELSE UniqueQueries(Tail(queries), seen)

_extract_all_search_queries(claim, language) ==
  LET claim_lower == ToLower(claim)
      merz == IF ~Contains(claim_lower, "merz") THEN <<>>
              ELSE IF language = "de"
                THEN <<"Friedrich Merz Bundeskanzler", "Deutschland Bundeskanzler 2025">>
                ELSE <<"Friedrich Merz Chancellor", "Germany Chancellor 2025">>
      years == FindYears(claim, 1)
      dates == [k \in 1..Len(years) |->
                  (IF language = "de" THEN "Deutschland Politik " ELSE "Germany politics ")
                  \o years[k]]
  IN UniqueQueries(FlatMapNames(FindProperNouns(claim, 1), claim_lower, language)
                   \o merz \o dates, {})

\* the claim searched after the queries extracted from it
SearchQueriesClaimLast(claim, language) ==
  LET search_queries == _extract_all_search_queries(claim, language) \o <<claim>>
  IN SubSeq(search_queries, 1, Min(Len(search_queries), MAX_SEARCH_QUERIES))

\* every query of the claim, however many
SearchQueriesUncapped(claim, language) ==
  <<claim>> \o _extract_all_search_queries(claim, language)

\* lines 177-181: the queries one verification searches, in order
SearchQueries(claim, language) ==
  LET search_queries == <<claim>> \o _extract_all_search_queries(claim, language)
  IN SubSeq(search_queries, 1, Min(Len(search_queries), MAX_SEARCH_QUERIES))

\* html_pattern.sub('', text) of search(): every <...> holding at least one
\* character is removed
RECURSIVE StripHtml(_, _)
StripHtml(s, i) ==
  LET tags == {k \in i..Len(s) : Ch(s, k) = "<" /\ Ch(s, k + 1) \notin {">", ""}
                                   /\ NextIn(s, k + 2, {">"}) <= Len(s)}
      m == CHOOSE k \in tags : \A n \in tags : k <= n
  IN IF tags = {} THEN Slice(s, i, Len(s))
     ELSE Slice(s, i, m - 1) \o StripHtml(s, NextIn(s, m + 2, {">"}) + 1)

\* lines 77-87 of search(): the first count provider results as evidence items
SearchResults(web_results, count) ==
  [k \in 1..Min(Len(web_results), count) |->
     [title |-> StripHtml(web_results[k].title, 1),
      url |-> web_results[k].url,
      snippet |-> StripHtml(web_results[k].description, 1),
      age |-> web_results[k].age]]

\* a merge that keeps the last result of each url
RECURSIVE DedupKeepLast(_, _)
DedupKeepLast(results, seen_urls) ==
  IF results = <<>> THEN <<>>
  ELSE IF \E k \in 2..Len(results) : results[k].url = Head(results).url
    THEN DedupKeepLast(Tail(results), seen_urls)
    ELSE <<Head(results)>> \o DedupKeepLast(Tail(results), seen_urls)

\* lines 196-202: the first result of every url, in order
RECURSIVE DedupByUrl(_, _)
DedupByUrl(results, seen_urls) ==
  IF results = <<>> THEN <<>>
  ELSE IF Head(results).url \notin seen_urls
    THEN <<Head(results)>> \o DedupByUrl(Tail(results), seen_urls \cup {Head(results).url})
    ELSE DedupByUrl(Tail(results), seen_urls)

\* lines 276-292: the relevance score of a result that passed the gate
Score(result, claim_words) ==
  LET snippet_lower == ToLower(result.snippet)
      title_lower == ToLower(result.title)
      long == {w \in claim_words : Len(w) > MIN_WORD_LENGTH_FOR_MATCHING}
      matching_words == Cardinality({w \in long : Contains(snippet_lower, w)})
      title_matches == Cardinality({w \in long : Contains(title_lower, w)})
  IN (IF Len(result.snippet) >= LONG_SNIPPET_LENGTH THEN 2
      ELSE IF Len(result.snippet) >= MIN_SNIPPET_LENGTH THEN 1 ELSE 0)
     + matching_words * 2 + title_matches * 3

\* acceptance without the url gate of lines 272-274
AcceptedWithoutUrlGate(result, claim_words) ==
  /\ Len(Strip(result.snippet)) >= MIN_SNIPPET_LENGTH
  /\ Score(result, claim_words) # 0

\* lines 268-296: whether a result is accepted
Accepted(result, claim_words) ==
  /\ Len(Strip(result.snippet)) >= MIN_SNIPPET_LENGTH
  /\ result.url # ""
  /\ Len(Strip(result.url)) >= MIN_URL_LENGTH
  /\ Score(result, claim_words) # 0

\* lines 262-296: the (score, result) pairs of the accepted results, in order
RECURSIVE KeepAccepted(_, _)
KeepAccepted(results, claim_words) ==
  IF results = <<>> THEN <<>>
  ELSE (IF Accepted(Head(results), claim_words)
        THEN <<[score |-> Score(Head(results), claim_words), result |-> Head(results)]>>
        ELSE <<>>)
       \o KeepAccepted(Tail(results), claim_words)

\* an insertion that puts x before the entries of equal score
RECURSIVE InsertDescUnstable(_, _)
InsertDescUnstable(sorted, x) ==
  IF sorted = <<>> THEN <<x>>
  ELSE IF Head(sorted).score > x.score
    THEN <<Head(sorted)>> \o InsertDescUnstable(Tail(sorted), x)
    ELSE <<x>> \o sorted

\* list.sort(key=score, reverse=True): descending, equal scores in input order.
\* InsertDesc puts x after every entry whose score is at least its own.
RECURSIVE InsertDesc(_, _)
InsertDesc(sorted, x) ==
  IF sorted = <<>> THEN <<x>>
  ELSE IF Head(sorted).score >= x.score
    THEN <<Head(sorted)>> \o InsertDesc(Tail(sorted), x)
    ELSE <<x>> \o sorted

RECURSIVE SortDesc(_)
SortDesc(items) ==
  IF items = <<>> THEN <<>>
  ELSE InsertDesc(SortDesc(SubSeq(items, 1, Len(items) - 1)), items[Len(items)])

_filter_search_results(results, claim, max_results) ==
  LET claim_words == SeqToSet(Split(ToLower(claim)))
      filtered == SortDesc(KeepAccepted(results, claim_words))
  IN [k \in 1..Min(Len(filtered), max_results) |-> filtered[k].result]

\* lines 196-209: what _perform_web_searches returns for the accumulated results
GatherEvidence(all_search_results, claim) ==
  _filter_search_results(DedupByUrl(all_search_results, {}), claim, MAX_FILTERED_RESULTS)

(***************************************************************************)
(* The world of the model: the requests made, what the search provider     *)
(* holds, and what the language model may answer.                          *)
(***************************************************************************)

RequestA == [claim |-> "The Berlin Wall fell in 1989.", language |-> "en"]

RequestB == [claim |-> "the moon landing was staged", language |-> "en"]

Requests == {RequestA, RequestB}

WallPage ==
  [title |-> "Fall of the <strong>Berlin Wall</strong>",
   url |-> "https://history.example/wall",
   description |-> "The Berlin Wall fell on 9 November 1989, when East Germany opened its "
                   \o "border crossings after weeks of protests.",
   age |-> "2 days ago"]

StubPage ==
  [title |-> "Berlin Wall", url |-> "https://stub.example/wall",
   description |-> "The wall fell in 1989.", age |-> ""]

NoUrlPage ==
  [title |-> "Wall timeline", url |-> "",
   description |-> "A timeline of the Berlin Wall from 1961 to November 1989.", age |-> ""]

MuseumPage ==
  [title |-> "Museum opening hours", url |-> "https://museum.example/visit",
   description |-> "Visit the museum at the former border strip in Berlin: the exhibition "
                   \o "shows how the Wall divided the city for twenty-eight years, how people "
                   \o "fled across it, and how it fell in November 1989 after the protests in Leipzig.",
   age |-> ""]

MoonPage ==
  [title |-> "Apollo 11 landing", url |-> "https://space.example/apollo",
   description |-> "Apollo 11 landed on the moon in July 1969; the landing was tracked worldwide.",
   age |-> ""]

\* what the provider answers to a query when the request succeeds
Web(query) ==
  CASE query = RequestA.claim -> <<WallPage, StubPage, NoUrlPage>>
    [] query = "The Berlin Wall" -> <<WallPage, MuseumPage>>
    [] query = RequestB.claim -> <<MoonPage>>
    [] OTHER -> <<>>

\* how one search call can end: with results, with the provider's rate limit
\* (lines 70-73), or with an exception (lines 92-104)
SearchOutcomes == {"ok", "rate_limited", "error"}

\* a search that, rate limited, waits and asks again
SearchRetrying(query, count, outcome) ==
  IF outcome \in {"ok", "rate_limited"} THEN SearchResults(Web(query), count) ELSE <<>>

\* SearchService.search for an enabled service: the results, [] on any error
search(query, count, outcome) ==
  IF outcome = "ok" THEN SearchResults(Web(query), Min(count, 20)) ELSE <<>>

RECURSIVE Rep(_, _)
Rep(x, n) == IF n <= 0 THEN "" ELSE x \o Rep(x, n - 1)

CitedAnswer ==
  "{\"status\": \"Factually Correct\", \"justification\": \"Sources agree.\", "
  \o "\"sources\": [{\"title\": \"Wall\", \"url\": \"https://history.example/wall\"}]}"

FabricatedAnswer ==
  "{\"status\": \"Untruth\", \"justification\": \"Contradicted.\", "
  \o "\"sources\": [{\"url\": \"https://invented.example/page\"}]}"

UncitedAnswer ==
  "Result:\n~~~json\n{\"status\": \"True\", \"justification\": \"The Berlin "
  \o "border opened.\", \"sources\": []}\n~~~"

\* nested deeper than the decoder's stack allows
DeepAnswer == Rep("[", PyRecursionDepth + 1)

\* the texts the model may return to the veracity prompt
Responses == {CitedAnswer, FabricatedAnswer, UncitedAnswer, DeepAnswer}

\* how one attempt of _make_api_call can end: the client raises, or the
\* response carries a text, which may be empty
ApiOutcomes == {[raised |-> TRUE, text |-> ""]} \cup
               {[raised |-> FALSE, text |-> t] : t \in Responses \cup {""}}

(***************************************************************************)
(* The functions of the source tabulated over the inputs of the model.     *)
(* The service applies a function by looking its argument up in the table  *)
(* that Init builds with these operators, so each value is computed once.  *)
(***************************************************************************)

\* SearchQueries of every request
QueriesOf(requests) ==
  [request \in requests |-> SearchQueries(request.claim, request.language)]

\* search of every query under every outcome
FoundFor(queries) ==
  [query \in queries |->
     [outcome \in SearchOutcomes |-> search(query, RESULTS_PER_QUERY, outcome)]]

\* every value all_search_results can have after the queries from position k on
RECURSIVE Accumulated(_, _, _)
Accumulated(found, queries, k) ==
  IF k > Len(queries) THEN {<<>>}
  ELSE {found[queries[k]][outcome] \o rest :
          outcome \in SearchOutcomes, rest \in Accumulated(found, queries, k + 1)}

\* GatherEvidence of every accumulated list
GatheredFor(requests, queries, found) ==
  [request \in requests |->
     [all_search_results \in Accumulated(found, queries[request], 1) |->
        GatherEvidence(all_search_results, request.claim)]]

\* every value the buffer can hold
BuffersOf(gathered) ==
  {<<>>} \cup UNION {{gathered[request][a] : a \in DOMAIN gathered[request]} :
                       request \in DOMAIN gathered}

\* _parse_veracity_response of every response under every buffer
ParsedFor(responses, buffers) ==
  [response_text \in responses |->
     [buffer \in buffers |-> _parse_veracity_response(response_text, buffer)]]

Tabulate(requests, responses) ==
  LET queries == QueriesOf(requests)
      found == FoundFor(UNION {SeqToSet(queries[request]) : request \in requests})
      gathered == GatheredFor(requests, queries, found)
  IN [queries |-> queries, found |-> found, gathered |-> gathered,
      parsed |-> ParsedFor(responses, BuffersOf(gathered))]

(***************************************************************************)
(* The service: one instance shared by the calls of analyze_veracity that  *)
(* the event loop interleaves.                                             *)
(***************************************************************************)

CallIds == {1, 2}

MAX_RETRIES == 3

VARIABLES
  api_key_set,       \* the language-model credential is configured
  brave_key_set,     \* SearchService.enabled
  ENABLE_WEB_SEARCH, \* settings.ENABLE_WEB_SEARCH
  current,           \* BaseLLMService._current_search_results
  running,           \* the call that holds the event loop, 0 when it is free
  calls,             \* the frame of each call of analyze_veracity
  table,             \* the functions of the source tabulated by Init; never changes
  probe,             \* one direct application of the parser to a text
  http               \* the rate limiter's hits and the last request answered

vars ==
  <<api_key_set, brave_key_set, ENABLE_WEB_SEARCH, current, running, calls, table, probe, http>>

\* BaseLLMService.enabled
enabled == api_key_set

\* web search enabled by the setting alone
SearchSwitchOnly == ENABLE_WEB_SEARCH

\* BaseLLMService.web_search_enabled
web_search_enabled == ENABLE_WEB_SEARCH /\ brave_key_set

NoVerdict == [kind |-> "none", status |-> "", justification |-> JNone,
              verification_method |-> JNone, sources |-> <<>>]

\* the parse-error tuple in the place of the default tuple
DefaultAsParseError ==
  Returned("Unverifiable", JStr("Invalid JSON response from analysis"), JStr("Parse error"), <<>>)

_get_default_veracity_analysis ==
  Returned("Unverifiable", JStr("Analysis not available"), JStr("Default method used"), <<>>)

IdleCall ==
  [pc |-> "idle", claim |-> "", language |-> "", queries |-> <<>>, issued |-> 0,
   slept |-> 0, search_errors |-> 0, all_search_results |-> <<>>, evidence |-> <<>>,
   attempt |-> 0, failures |-> 0, delays |-> <<>>, response |-> "", seen |-> <<>>,
   overlapped |-> FALSE, context |-> "", outcome |-> "none", verdict |-> NoVerdict,
   searched |-> <<>>, returned |-> 0]

NoObject == [status |-> "", justification |-> "", sources |-> <<>>]

NoProbe == [phase |-> "none", kind |-> "", object |-> NoObject, before |-> "", bare |-> "",
            after |-> "", text |-> "", result |-> NoVerdict, claim |-> "", language |-> "",
            results |-> <<>>, max_results |-> 0, output |-> <<>>, again |-> <<>>]

\* Optional values: None, or a value
None == <<>>

Some(x) == <<x>>

NoExchange == [endpoint |-> "", body |-> JNone, status_code |-> 0, response |-> None,
               stages |-> <<>>, raised |-> "", limited |-> FALSE]

NoHttp == [hits |-> [root |-> 0, evaluate |-> 0], ENABLE_VERACITY_CHECK |-> TRUE,
           ENABLE_NUANCE_ANALYSIS |-> TRUE, last |-> NoExchange]

Init ==
  /\ api_key_set \in BOOLEAN
  /\ brave_key_set \in BOOLEAN
  /\ ENABLE_WEB_SEARCH \in BOOLEAN
  /\ current = <<>>
  /\ running = 0
  /\ calls = [c \in CallIds |-> IdleCall]
  /\ table = Tabulate(Requests, Responses)
  /\ probe = NoProbe
  /\ http = NoHttp

\* a call runs only while no other call holds the event loop
CanRun(c) == running = 0 \/ running = c

\* the model call as an awaited call, which releases the event loop
Awaited(c) == 0

\* _make_api_call is an ordinary blocking call: the caller keeps the event
\* loop from the moment the context is built until analyze_veracity returns
Blocking(c) == c

\* _build_search_context: the buffer becomes the evidence of this call
_build_search_context(search_results) == search_results

\* the heading of the text _build_search_context returns
SearchContext(search_results) ==
  IF search_results # <<>> THEN "=== WEB SEARCH RESULTS ===" ELSE "[NONE] NO WEB SEARCH RESULTS FOUND"

\* the frame once the evidence is gathered and the prompt is about to be sent
ToModel(call, search_results) ==
  [call EXCEPT !.pc = "model", !.evidence = search_results,
               !.context = SearchContext(search_results)]

\* the exception leaving analyze_veracity
Reraise(call, why) == [call EXCEPT !.pc = "crashed", !.outcome = why]

\* the except block of analyze_veracity: log and return the default verdict
HandleException(call, why) ==
  [call EXCEPT !.pc = "done", !.outcome = why, !.verdict = _get_default_veracity_analysis]

\* the query read next without the pacing delay
IssueNext(gathered) ==
  [gathered EXCEPT !.pc = "search", !.issued = @ + 1,
                   !.searched = Append(@, [query |-> gathered.queries[gathered.issued + 1],
                                           count |-> RESULTS_PER_QUERY])]

\* lines 187-190: search_service.search(query, count=RESULTS_PER_QUERY) is
\* called for the next query of the loop and awaited
Issue(call) ==
  [call EXCEPT !.pc = "search", !.issued = @ + 1,
               !.searched = Append(@, [query |-> call.queries[call.issued + 1],
                                       count |-> RESULTS_PER_QUERY])]

\* lines 184-185: from the second query on, asyncio.sleep(0.25) is awaited
\* before the search
Pace(gathered) == [gathered EXCEPT !.pc = "sleep"]

\* analyze_veracity is entered and runs to its first suspension point
Call(c, request) ==
  /\ calls[c].pc = "idle"
  /\ running = 0
  /\ LET call == [calls[c] EXCEPT !.claim = request.claim, !.language = request.language]
     IN IF ~enabled
        THEN /\ calls' = [calls EXCEPT ![c] =
                    [call EXCEPT !.pc = "done", !.outcome = "disabled",
                                 !.verdict = _get_default_veracity_analysis]]
             /\ UNCHANGED <<current, running>>
        ELSE IF ~web_search_enabled
        THEN /\ calls' = [calls EXCEPT ![c] = ToModel(call, <<>>)]
             /\ current' = _build_search_context(<<>>)
             /\ running' = Blocking(c)
        ELSE /\ calls' = [calls EXCEPT ![c] =
                    Issue([call EXCEPT !.queries = table.queries[request]])]
             /\ UNCHANGED <<current, running>>
  /\ UNCHANGED <<api_key_set, brave_key_set, ENABLE_WEB_SEARCH, table, http, probe>>

\* the awaited search of the current query completes
SearchReturn(c, outcome) ==
  /\ calls[c].pc = "search"
  /\ CanRun(c)
  /\ LET call == calls[c]
         results == table.found[call.queries[call.issued]][outcome]
         gathered == [call EXCEPT !.all_search_results = @ \o results,
                                  !.returned = @ + 1,
                                  !.search_errors = @ + (IF outcome = "ok" THEN 0 ELSE 1)]
     IN IF call.issued < Len(call.queries)
        THEN /\ calls' = [calls EXCEPT ![c] = Pace(gathered)]
             /\ UNCHANGED <<current, running>>
        ELSE LET request == [claim |-> call.claim, language |-> call.language]
                 search_results == table.gathered[request][gathered.all_search_results]
             IN /\ calls' = [calls EXCEPT ![c] = ToModel(gathered, search_results)]
                /\ current' = _build_search_context(search_results)
                /\ running' = Blocking(c)
  /\ UNCHANGED <<api_key_set, brave_key_set, ENABLE_WEB_SEARCH, table, http, probe>>

\* the pacing delay before the next query ends and that query is issued
SleepReturn(c) ==
  /\ calls[c].pc = "sleep"
  /\ CanRun(c)
  /\ calls' = [calls EXCEPT ![c] = Issue([@ EXCEPT !.slept = @ + 1])]
  /\ UNCHANGED <<api_key_set, brave_key_set, ENABLE_WEB_SEARCH, table, http, current, running, probe>>

\* a retry loop that allows one attempt more
ExhaustedLate(attempt) == attempt > MAX_RETRIES

\* the retry loop of _make_api_call gives up after this many attempts
Exhausted(attempt) == attempt >= MAX_RETRIES

\* a delay that starts at 2
BackoffFromTwo(attempt) == 2 ^ (attempt + 1)

\* 2 ** attempt
Backoff(attempt) == 2 ^ attempt

\* one attempt of _make_api_call and, when it yields a text, the rest of
\* analyze_veracity
ModelAttempt(c, api) ==
  /\ calls[c].pc = "model"
  /\ CanRun(c)
  /\ LET call == [calls[c] EXCEPT !.attempt = @ + 1]
     IN IF api.raised \/ api.text = ""
        THEN LET failed == [call EXCEPT !.failures = @ + 1]
             IN IF Exhausted(call.attempt)
                THEN /\ calls' = [calls EXCEPT ![c] = HandleException(failed, "model_failed")]
                     /\ running' = 0
                     /\ UNCHANGED current
                ELSE /\ calls' = [calls EXCEPT ![c] =
                            [failed EXCEPT !.delays = Append(@, Backoff(calls[c].attempt))]]
                     /\ UNCHANGED <<current, running>>
        ELSE LET read == [call EXCEPT !.response = api.text, !.seen = current,
                                      !.overlapped = \E d \in CallIds \ {c} :
                                                       calls[d].pc \in {"search", "sleep"}]
                 result == table.parsed[api.text][current]
             IN IF result.kind = "raise"
                THEN /\ calls' = [calls EXCEPT ![c] = HandleException(read, "parse_raised")]
                     /\ running' = 0
                     /\ UNCHANGED current
                ELSE /\ calls' = [calls EXCEPT ![c] =
                            [read EXCEPT !.pc = "done", !.outcome = "parsed", !.verdict = result]]
                     /\ current' = <<>>
                     /\ running' = 0
  /\ UNCHANGED <<api_key_set, brave_key_set, ENABLE_WEB_SEARCH, table, http, probe>>

Next ==
  \/ \E c \in CallIds, request \in Requests : Call(c, request)
  \/ \E c \in CallIds, outcome \in SearchOutcomes : SearchReturn(c, outcome)
  \/ \E c \in CallIds : SleepReturn(c)
  \/ \E c \in CallIds, api \in ApiOutcomes : ModelAttempt(c, api)

Spec == Init /\ [][Next]_vars

\* the event loop resumes every coroutine whose awaited search or delay has
\* completed, and a blocking model attempt ends
Resume(c) ==
  \/ \E outcome \in SearchOutcomes : SearchReturn(c, outcome)
  \/ SleepReturn(c)
  \/ \E api \in ApiOutcomes : ModelAttempt(c, api)

FairSpec == Spec /\ \A c \in CallIds : WF_vars(Resume(c))

(***************************************************************************)
(* One verification of a claim that yields more queries than are searched. *)
(***************************************************************************)

\* requests whose claims yield 12 and 22 queries
LongRequests ==
  {[claim |-> "Chancellor Angela Merkel wrote a book in 2024 and Friedrich Merz in 2025.",
    language |-> "en"],
   [claim |-> "Kanzler Angela Merkel schrieb ein Buch, Friedrich Merz wurde 2025 Kanzler.",
    language |-> "de"]}

SoloInit ==
  /\ api_key_set = TRUE
  /\ brave_key_set = TRUE
  /\ ENABLE_WEB_SEARCH = TRUE
  /\ current = <<>>
  /\ running = 0
  /\ calls = [c \in CallIds |-> IdleCall]
  /\ table = Tabulate(LongRequests, Responses)
  /\ probe = NoProbe
  /\ http = NoHttp

SoloNext ==
  \/ \E request \in LongRequests : Call(1, request)
  \/ \E outcome \in SearchOutcomes : SearchReturn(1, outcome)
  \/ SleepReturn(1)
  \/ \E api \in ApiOutcomes : ModelAttempt(1, api)

SoloSpec == SoloInit /\ [][SoloNext]_vars

(***************************************************************************)
(* The HTTP endpoints and the analysis pipeline behind them.  One client   *)
(* sends requests one after the other; the rate limiter counts its hits in *)
(* the current window.                                                     *)
(***************************************************************************)

\* api_models.py: min_length and max_length of post_text
MIN_POST_LENGTH == 10

MAX_POST_LENGTH == 10000

\* main.py: the limits "30/minute" of GET / and "10/minute" of POST /evaluate
ROOT_LIMIT == 30

EVALUATE_LIMIT == 10

\* config.py: SPAM_CONFIDENCE_THRESHOLD = 0.7, in hundredths
SPAM_CONFIDENCE_THRESHOLD == 70

SPAM_LABELS == {"Werbung / Spam", "Promotion"}

\* a validator that accepts every language
AnyLanguage(v) == TRUE

\* SocialMediaPostRequest.validate_language
validate_language(v) == v \in {JStr("en"), JStr("de")}

\* the validation of a request body against SocialMediaPostRequest: post_id
\* and post_text are required strings, post_text of 10 to 10000 characters,
\* and a language that is given passes validate_language
ValidBody(body) ==
  /\ body.t = "obj"
  /\ HasKey(body, "post_id")
  /\ Get(body, "post_id", JNone).t = "str"
  /\ HasKey(body, "post_text")
  /\ Get(body, "post_text", JNone).t = "str"
  /\ Len(Get(body, "post_text", JNone).s) >= MIN_POST_LENGTH
  /\ Len(Get(body, "post_text", JNone).s) <= MAX_POST_LENGTH
  /\ HasKey(body, "language") => validate_language(Get(body, "language", JNone))

\* the fields of a validated body, language defaulting to "en"
Fields(body) ==
  [post_id |-> Get(body, "post_id", JNone).s,
   post_text |-> Get(body, "post_text", JNone).s,
   language |-> Get(body, "language", JStr("en")).s]

\* a stage that returns a value, and a stage that raises an exception
Returns(value) == [raised |-> "", value |-> value]

Raises(exception) == [raised |-> exception, value |-> None]

_detect_spam(primary_label, confidence) ==
  primary_label \in SPAM_LABELS /\ confidence.percent > SPAM_CONFIDENCE_THRESHOLD

_map_to_post_type(label) ==
  CASE label \in {"Factual Claim", "Faktische Behauptung"} -> "Factual Claim"
    [] label \in {"Opinion", "Meinungsäußerung"} -> "Opinion"
    [] label \in {"Question", "Frage"} -> "Question"
    [] label \in {"Personal Update", "Persönliche Mitteilung"} -> "Personal Update"
    [] label \in {"Promotion", "Werbung / Spam"} -> "Promotion"
    [] OTHER -> "Opinion"

_map_veracity_status(status) ==
  IF status \in VALID_STATUSES THEN status ELSE "Unverifiable"

\* _run_triage on what classify_post_type returns; comparing a confidence
\* that is not a number with the threshold raises TypeError
_run_triage(classification) ==
  IF ~classification.confidence.number THEN Raises("TypeError")
  ELSE Returns(Some([post_type |-> _map_to_post_type(classification.primary_label),
                     is_spam |-> _detect_spam(classification.primary_label,
                                              classification.confidence)]))

_should_perform_veracity_check(settings, post_type, is_spam) ==
  post_type = "Factual Claim" /\ ~is_spam /\ settings.ENABLE_VERACITY_CHECK

\* the fields VeracityAnalysis and Source declare as str hold strings
ValidVeracity(verdict) ==
  /\ verdict.justification.t = "str"
  /\ verdict.verification_method.t = "str"
  /\ \A k \in 1..Len(verdict.sources) :
       /\ verdict.sources[k].title.t = "str"
       /\ verdict.sources[k].url.t = "str"
       /\ verdict.sources[k].snippet.t = "str"

\* _get_veracity_analysis on the tuple analyze_veracity returns
_get_veracity_analysis(settings, post_type, is_spam, verdict) ==
  IF ~_should_perform_veracity_check(settings, post_type, is_spam) THEN Returns(None)
  ELSE IF ~ValidVeracity(verdict) THEN Raises("ValidationError")
  ELSE Returns(Some([status |-> _map_veracity_status(verdict.status),
                     justification |-> verdict.justification.s,
                     verification_method |-> verdict.verification_method.s,
                     sources |-> [k \in 1..Len(verdict.sources) |->
                                    [title |-> verdict.sources[k].title.s,
                                     url |-> verdict.sources[k].url.s,
                                     snippet |-> verdict.sources[k].snippet.s]]]))

\* _get_nuance_analysis on the scores the political analysis returns; scores
\* that are not numbers cannot be summed (TypeError)
_get_nuance_analysis(settings, is_spam, scores_numeric) ==
  IF is_spam \/ ~settings.ENABLE_NUANCE_ANALYSIS THEN Returns(None)
  ELSE IF ~scores_numeric THEN Raises("TypeError")
  ELSE Returns(Some("nuance"))

_build_analysis_response(post_id, language, post_type, is_spam, veracity, nuance, error) ==
  [post_id |-> post_id, language |-> language,
   post_analysis |-> [post_type |-> post_type, is_spam |-> is_spam],
   veracity_analysis |-> veracity, nuance_analysis |-> nuance,
   processing_error |-> error]

\* an except block that reports the post as spam
AnalysisFailedAsSpam(post_id, language, exception) ==
  _build_analysis_response(post_id, language, "Opinion", TRUE, None, None,
                           Some("Analysis failed: " \o exception))

\* lines 59-76: the except block of perform_full_analysis
AnalysisFailed(post_id, language, exception) ==
  _build_analysis_response(post_id, language, "Opinion", FALSE, None, None,
                           Some("Analysis failed: " \o exception))

\* perform_full_analysis: the dict returned, the analyses that ran and the
\* exception a stage raised, if one did
perform_full_analysis(settings, post_id, post_text, language, world) ==
  LET triage == _run_triage(world.classification)
      post_type == IF triage.raised = "" THEN triage.value[1].post_type ELSE ""
      is_spam == IF triage.raised = "" THEN triage.value[1].is_spam ELSE FALSE
      veracity == _get_veracity_analysis(settings, post_type, is_spam, world.verdict)
      nuance == _get_nuance_analysis(settings, is_spam, world.scores_numeric)
      checked == IF _should_perform_veracity_check(settings, post_type, is_spam)
                 THEN <<"veracity">> ELSE <<>>
      weighed == IF is_spam \/ ~settings.ENABLE_NUANCE_ANALYSIS THEN <<>> ELSE <<"nuance">>
  IN IF triage.raised # ""
     THEN [response |-> AnalysisFailed(post_id, language, triage.raised),
           stages |-> <<"triage">>, raised |-> triage.raised]
     ELSE IF veracity.raised # ""
     THEN [response |-> AnalysisFailed(post_id, language, veracity.raised),
           stages |-> <<"triage">> \o checked, raised |-> veracity.raised]
     ELSE IF nuance.raised # ""
     THEN [response |-> AnalysisFailed(post_id, language, nuance.raised),
           stages |-> <<"triage">> \o checked \o weighed, raised |-> nuance.raised]
     ELSE [response |-> _build_analysis_response(post_id, language, post_type, is_spam,
                                                 veracity.value, nuance.value, None),
           stages |-> <<"triage">> \o checked \o weighed, raised |-> ""]

\* what classify_post_type returns: the label and the confidence the model
\* reports, a confidence that is a number being held in hundredths
Classifications ==
  {[primary_label |-> l[1], confidence |-> [number |-> TRUE, percent |-> l[2]]] :
     l \in {<<"Factual Claim", 90>>, <<"Opinion", 80>>, <<"Promotion", 90>>,
            <<"Promotion", 50>>, <<"Gibberish", 50>>}}
  \cup {[primary_label |-> "Factual Claim", confidence |-> [number |-> FALSE, percent |-> 0]]}

NullJustificationAnswer ==
  "{\"status\": \"Misleading\", \"justification\": null, "
  \o "\"sources\": [{\"url\": \"https://a.example/x\"}]}"

\* what the model answers to the veracity prompt; "" when every attempt fails
VeracityAnswers == {"", CitedAnswer, NullJustificationAnswer}

\* the tuple analyze_veracity returns for each answer, no evidence gathered
VerdictsOf(answers) ==
  [answer \in answers |->
     IF answer = "" THEN _get_default_veracity_analysis
     ELSE _parse_veracity_response(answer, <<>>)]

\* what the model answers during one analysis; the veracity answer varies
\* only where the post is classified as a factual claim
Worlds ==
  {w \in [classification : Classifications, answer : VeracityAnswers, scores_numeric : BOOLEAN] :
     /\ w.classification.primary_label # "Factual Claim" => w.answer = ""
     /\ ~w.classification.confidence.number => (w.answer = "" /\ w.scores_numeric)}

RequestBody(post_id, post_text, language) ==
  JObj(<<JPair("post_id", JStr(post_id)), JPair("post_text", JStr(post_text)),
         JPair("language", language)>>)

\* bodies that pass the validation: a text of 10 characters in German, and
\* a text with no language given
ValidBodies ==
  {RequestBody("p1", "0123456789", JStr("de")),
   JObj(<<JPair("post_id", JStr("p2")), JPair("post_text", JStr("The Berlin Wall fell in 1989."))>>)}

InvalidBodies ==
  {JObj(<<JPair("post_id", JStr("q1")), JPair("language", JStr("en"))>>),
   RequestBody("q2", "", JStr("en")),
   RequestBody("q3", "Too short", JStr("en")),
   RequestBody("q4", "Test content", JStr("fr")),
   RequestBody("q5", "Test content", JNone),
   RequestBody("q6", "Test content", JStr("EN"))}

ApiInit ==
  /\ api_key_set = TRUE
  /\ brave_key_set = TRUE
  /\ ENABLE_WEB_SEARCH = TRUE
  /\ current = <<>>
  /\ running = 0
  /\ calls = [c \in CallIds |-> IdleCall]
  /\ table = [verdicts |-> VerdictsOf(VeracityAnswers)]
  /\ probe = NoProbe
  /\ http \in {[NoHttp EXCEPT !.ENABLE_VERACITY_CHECK = s[1], !.ENABLE_NUANCE_ANALYSIS = s[2]] :
                 s \in BOOLEAN \X BOOLEAN}

\* the analysis of one post under what the model answers
Analysis(post_id, post_text, language, world) ==
  perform_full_analysis(http, post_id, post_text, language,
                        [classification |-> world.classification,
                         verdict |-> table.verdicts[world.answer],
                         scores_numeric |-> world.scores_numeric])

\* the limiter admits a request of the endpoint in the current window
Admits(endpoint, limit) == http.hits[endpoint] < limit


\* POST /evaluate: the body is validated, the limiter is asked, the analysis
\* runs and its dict is returned as AdvancedEvaluationResponse
evaluate_content(body, world) ==
  /\ IF ~ValidBody(body)
     THEN http' = [http EXCEPT !.last = [NoExchange EXCEPT !.endpoint = "evaluate", !.body = body,
                                                           !.status_code = 422]]
     ELSE IF ~Admits("evaluate", EVALUATE_LIMIT)
     THEN http' = [http EXCEPT !.last = [NoExchange EXCEPT !.endpoint = "evaluate", !.body = body,
                                                           !.status_code = 429,
                                                           !.limited = TRUE]]
     ELSE LET result == Analysis(Fields(body).post_id, Fields(body).post_text,
                                 Fields(body).language, world)
          IN http' = [http EXCEPT !.hits.evaluate = @ + 1,
                                  !.last = [endpoint |-> "evaluate", body |-> body,
                                            status_code |-> 200,
                                            response |-> Some(result.response),
                                            stages |-> result.stages,
                                            raised |-> result.raised, limited |-> FALSE]]
  /\ UNCHANGED <<api_key_set, brave_key_set, ENABLE_WEB_SEARCH, table, current, running, calls,
                 probe>>

\* GET /: the limiter is asked, the analysis of the text "test" runs and the
\* service reports itself operational
root(world) ==
  /\ IF ~Admits("root", ROOT_LIMIT)
     THEN http' = [http EXCEPT !.last = [NoExchange EXCEPT !.endpoint = "root",
                                                           !.status_code = 429,
                                                           !.limited = TRUE]]
     ELSE LET result == Analysis("health", "test", "en", world)
          IN http' = [http EXCEPT !.hits.root = @ + 1,
                                  !.last = [endpoint |-> "root", body |-> JNone,
                                            status_code |-> 200,
                                            response |-> Some([status |-> "operational"]),
                                            stages |-> result.stages,
                                            raised |-> result.raised, limited |-> FALSE]]
  /\ UNCHANGED <<api_key_set, brave_key_set, ENABLE_WEB_SEARCH, table, current, running, calls,
                 probe>>

\* the minute of the limiter ends: the hits of the window are forgotten
WindowEnds ==
  /\ http.hits # [root |-> 0, evaluate |-> 0]
  /\ http' = [http EXCEPT !.hits = [root |-> 0, evaluate |-> 0]]
  /\ UNCHANGED <<api_key_set, brave_key_set, ENABLE_WEB_SEARCH, table, current, running, calls,
                 probe>>

ApiNext ==
  \/ \E body \in ValidBodies, world \in Worlds : evaluate_content(body, world)
  \/ \E body \in InvalidBodies : evaluate_content(body, CHOOSE world \in Worlds : TRUE)
  \/ \E world \in Worlds : root(world)
  \/ WindowEnds

ApiSpec == ApiInit /\ [][ApiNext]_vars

(***************************************************************************)
(* The parser applied directly to texts: serialised verdict objects, JSON  *)
(* wrapped in a code fence with prose around it, and malformed output.     *)
(***************************************************************************)

\* the escapes json.dumps writes inside a string
EscapeCh(c) ==
  CASE c = "\"" -> "\\\""
    [] c = "\\" -> "\\\\"
    [] c = "\n" -> "\\n"
    [] c = "\r" -> "\\r"
    [] c = "\t" -> "\\t"
    [] OTHER -> c

RECURSIVE Escape(_)
Escape(s) ==
  IF Len(s) <= 1 THEN EscapeCh(s)
  ELSE Escape(SubSeq(s, 1, Len(s) \div 2)) \o Escape(SubSeq(s, Len(s) \div 2 + 1, Len(s)))

Quoted(s) == "\"" \o Escape(s) \o "\""

SerializeSource(source) ==
  "{\"title\": " \o Quoted(source.title) \o ", \"url\": " \o Quoted(source.url)
  \o ", \"snippet\": " \o Quoted(source.snippet) \o "}"

RECURSIVE SerializeSources(_)
SerializeSources(sources) ==
  IF sources = <<>> THEN ""
  ELSE SerializeSource(Head(sources))
       \o (IF Len(sources) > 1 THEN ", " ELSE "") \o SerializeSources(Tail(sources))

\* json.dumps of a verdict object
Serialize(object) ==
  "{\"status\": " \o Quoted(object.status) \o ", \"justification\": "
  \o Quoted(object.justification) \o ", \"sources\": [" \o SerializeSources(object.sources) \o "]}"

\* the verdict that carries exactly the fields of a verdict object
VerdictOf(object) ==
  Returned(object.status, JStr(object.justification), JStr("Web search"),
           [k \in 1..Len(object.sources) |->
              [title |-> JStr(object.sources[k].title), url |-> JStr(object.sources[k].url),
               snippet |-> JStr(object.sources[k].snippet)]])

WallSource == [title |-> "Fall of the Wall", url |-> "https://history.example/wall",
               snippet |-> "It \"fell\" in 1989."]

BareSource == [title |-> "", url |-> "https://b.example/x", snippet |-> ""]

UnlinkedSource == [title |-> "No link", url |-> "", snippet |-> "n/a"]

SourceLists == {<<>>, <<WallSource>>, <<WallSource, BareSource>>, <<UnlinkedSource>>,
                <<WallSource, UnlinkedSource>>}

Justifications == {"Sources agree.", "He said \"no\" publicly.\n{See C:\\docs}"}

\* the well-formed verdict objects
Objects == [status : VALID_STATUSES, justification : Justifications, sources : SourceLists]

\* JSON objects to wrap in a fence
BareTexts ==
  {CitedAnswer,
   Serialize([status |-> "Misleading", justification |-> "He said \"no\" {twice}",
              sources |-> <<>>]),
   "{\"status\": \"True\", \"justification\": \"a } b\"}",
   "{\"a\": " \o Rep("[", PyRecursionDepth) \o Rep("]", PyRecursionDepth) \o "}"}

ProseBefore == {"Here is the result:\n", "Result for {claim}:\n"}

ProseAfter == {"\nThanks", "\nDone. } \"quoted\" {"}

\* the example of unescaped quotation marks inside a string value, in three layouts
UnescapedQuotes ==
  {"{\"status\":\"Untruth\",\"justification\":\"He said \"no\" publicly\","
     \o "\"verification_method\":\"Web search\",\"sources\":[]}",
   "{\"status\": \"Untruth\", \"justification\": \"He said \"no\" publicly\"}",
   "{\"justification\":\"He said \"no\" publicly\"}"}

\* texts json.loads rejects, by what the brace scan meets in them
SpanTexts ==
  {"Verdict: {\"a\": {\"b\": 1}} and {more}",
   "x {\"j\": \"a } b\"} y",
   "{\"j\": \"say \\\"}\\\" now\"} rest }",
   "{\"j\": \"ends in a backslash \\\\\"} rest }",
   "{\"a\": {\"b\": 1} tail",
   "pre {\"a\": \"open } string",
   "} pre {\"a\"",
   "{ \\} } x",
   "no object here"}

\* a list of reported sources of which two are objects with a url
MixedSources ==
  "[\"https://a.example/x\", {\"title\": \"No link\"}, {\"title\": \"Empty\", \"url\": \"\"}, "
  \o "{\"url\": \"https://b.example/y\"}, null, 7, {\"title\": \"Full\", \"url\": "
  \o "\"https://c.example/z\", \"snippet\": \"text\", \"rank\": 1, \"age\": \"1d\"}]"

\* answers by the sources value they report
SourceTexts ==
  {"{\"status\": \"Untruth\", \"justification\": \"Contradicted by records.\", \"sources\": "
     \o v \o "}" :
   v \in {"\"none\"", "{\"url\": \"https://a.example/x\"}", "null", "[{\"title\": \"No link\"}]",
          MixedSources}}

RawTexts ==
  UnescapedQuotes \cup SpanTexts \cup SourceTexts \cup
  {"", "I could not verify this claim.", "{", "[1, 2]", "42", DeepAnswer,
   "{\"status\": \"Untruth\"", "{'status': 'Untruth'}", "{\"status\": \"Untruth\",}",
   "{\"justification\": \"x:\"no\"\"}", "{\"status\": \"Untruth\"} trailing",
   "{\"status\": \"Untruth\", \"justification\": null, \"sources\": []}",
   "{\"status\": \"Misleading\", \"sources\": []}"}

\* the buffers the parser is applied under: none, and the evidence of one
\* search, of two searches and of a search with three accepted results
ProbeBuffers ==
  {<<>>, GatherEvidence(search(RequestA.claim, RESULTS_PER_QUERY, "ok"), RequestA.claim),
   GatherEvidence(search(RequestA.claim, RESULTS_PER_QUERY, "ok")
                  \o search("The Berlin Wall", RESULTS_PER_QUERY, "ok"), RequestA.claim),
   GatherEvidence(<<[title |-> "Moon landing facts", url |-> "https://space.example/apollo",
                     snippet |-> "The Moon landing of 1969 is documented in detail. "
                                 \o Rep("Archive notes on orbital records. ", 3), age |-> ""],
                    [title |-> "", url |-> "https://one.example/a",
                     snippet |-> "A long read about the moon and its many phases this year.",
                     age |-> ""],
                    [title |-> "Broadcast critics", url |-> "https://two.example/b",
                     snippet |-> "Some said that the whole landing was STAGED in a studio.",
                     age |-> ""]>>,
                  RequestB.claim)}

\* justifications to reconcile with the buffer
ReconcileJustifications ==
  {"Sources agree.", "wall that fell",
   "The museum exhibition shows the protests in Leipzig.",
   "BERLIN border Border crossings", "Border border it is",
   "Critics staged the landing broadcast"}

Probes ==
  {[NoProbe EXCEPT !.phase = "object", !.kind = "dumped", !.object = o] : o \in Objects}
  \cup {[NoProbe EXCEPT !.phase = "parts", !.kind = "fenced", !.before = b[1], !.bare = b[2],
                        !.after = b[3]] : b \in ProseBefore \X BareTexts \X ProseAfter}
  \cup {[NoProbe EXCEPT !.phase = "text", !.kind = "raw", !.text = t] : t \in RawTexts}
  \cup {[NoProbe EXCEPT !.phase = "words", !.kind = "reconcile", !.text = t] :
          t \in ReconcileJustifications}

ParseInit ==
  /\ api_key_set = TRUE
  /\ brave_key_set = TRUE
  /\ ENABLE_WEB_SEARCH = TRUE
  /\ current \in ProbeBuffers
  /\ running = 0
  /\ calls = [c \in CallIds |-> IdleCall]
  /\ table = <<>>
  /\ probe \in Probes
  /\ http = NoHttp

\* json.dumps of the verdict object
Dump ==
  /\ probe.phase = "object"
  /\ probe' = [probe EXCEPT !.phase = "text", !.text = Serialize(probe.object)]
  /\ UNCHANGED <<api_key_set, brave_key_set, ENABLE_WEB_SEARCH, table, http, current, running, calls>>

\* the JSON object inside a fenced block with prose before and after it
Wrap ==
  /\ probe.phase = "parts"
  /\ probe' = [probe EXCEPT !.phase = "text",
                 !.text = probe.before \o Fence \o "json\n" \o probe.bare \o "\n" \o Fence
                          \o probe.after]
  /\ UNCHANGED <<api_key_set, brave_key_set, ENABLE_WEB_SEARCH, table, http, current, running, calls>>

\* _parse_veracity_response(text), reading the buffer of the service
Parse ==
  /\ probe.phase = "text"
  /\ probe' = [probe EXCEPT !.phase = "parsed",
                 !.result = _parse_veracity_response(probe.text, current),
                 !.output = LET data == DecodedData(probe.text)
                            IN IF data.st = "ok" /\ data.val.t = "obj"
                               THEN ReportedSources(data.val) ELSE <<>>]
  /\ UNCHANGED <<api_key_set, brave_key_set, ENABLE_WEB_SEARCH, table, http, current, running, calls>>

\* lines 448-484: the span cut from a text the first json.loads rejects
Extract ==
  /\ probe.phase = "text"
  /\ JsonLoads(probe.text).st = "decode"
  /\ probe' = [probe EXCEPT !.phase = "span",
                 !.output = ExtractJsonSpan(_clean_json_response(probe.text))]
  /\ UNCHANGED <<api_key_set, brave_key_set, ENABLE_WEB_SEARCH, table, http, current, running, calls>>

\* _auto_map_sources_from_results(justification), reading the buffer of the service
Reconcile ==
  /\ probe.phase = "words"
  /\ probe' = [probe EXCEPT !.phase = "mapped",
                 !.output = _auto_map_sources_from_results(probe.text, current)]
  /\ UNCHANGED <<api_key_set, brave_key_set, ENABLE_WEB_SEARCH, table, http, current, running, calls>>

ParseNext == Dump \/ Wrap \/ Parse \/ Extract \/ Reconcile

ParseSpec == ParseInit /\ [][ParseNext]_vars

(***************************************************************************)
(* Query expansion, the merge and the ranking applied directly to inputs.  *)
(***************************************************************************)

\* the longest result list handed to the merge and to the ranking
MaxListLen == 3

\* the lists of at most n distinct members of pool
DistinctLists(pool, n) ==
  UNION {{q \in [1..m -> pool] : \A i, j \in 1..m : i # j => q[i] # q[j]} : m \in 0..n}

\* the lists of at most n members of pool
Lists(pool, n) == UNION {[1..m -> pool] : m \in 0..n}

RankedClaim == RequestB.claim

Filler == Rep("Archive notes on orbital records. ", 3)

\* results for RankedClaim, by what the ranking makes of them
Best == [title |-> "Moon landing facts", url |-> "https://space.example/apollo",
         snippet |-> "The Moon landing of 1969 is documented in detail. " \o Filler, age |-> ""]

TieOne == [title |-> "", url |-> "https://one.example/a",
           snippet |-> "A long read about the moon and its many phases this year.", age |-> ""]

TieTwo == [title |-> "", url |-> "https://two.example/b",
           snippet |-> "Critics said the whole broadcast was STAGED in a studio.", age |-> ""]

BonusOnly == [title |-> "Weather", url |-> "https://weather.example/today",
              snippet |-> "The forecast was mild. " \o Filler, age |-> ""]

ShortSnippet == [title |-> "Moon landing", url |-> "https://short.example/s",
                 snippet |-> "The moon landing was staged.", age |-> ""]

PaddedSnippet == [title |-> "Moon landing", url |-> "https://padded.example/p",
                  snippet |-> Rep(" ", 30) \o "moon landing" \o Rep(" ", 30), age |-> ""]

NoUrl == [title |-> "Moon landing", url |-> "",
          snippet |-> "The moon landing was staged, a forum post claims again.", age |-> ""]

ShortUrl == [title |-> "Moon landing", url |-> " a.b ",
             snippet |-> "The moon landing was staged, a forum post claims again.", age |-> ""]

RankPool == {Best, TieOne, TieTwo, BonusOnly, ShortSnippet, PaddedSnippet, NoUrl, ShortUrl}

MaxResultsChoices == {0, 2, MAX_FILTERED_RESULTS}

\* results of which some share a url
MergePool == {Best, TieOne, [TieOne EXCEPT !.title = "Mirror"], [Best EXCEPT !.snippet = "Copy"]}

ExpandedClaims ==
  {"", "Berlin", "Angela Merkel", RequestA.claim, RequestB.claim,
   "Chancellor Angela Merkel wrote a book in 2024 and Friedrich Merz in 2025.",
   "Kanzler Angela Merkel schrieb ein Buch, Friedrich Merz wurde 2025 Kanzler."}

Languages == {"en", "de"}

GatherProbes ==
  {[NoProbe EXCEPT !.phase = "input", !.kind = "rank", !.claim = RankedClaim, !.results = r[1],
                   !.max_results = r[2]] :
     r \in DistinctLists(RankPool, MaxListLen) \X MaxResultsChoices}
  \cup {[NoProbe EXCEPT !.phase = "input", !.kind = "merge", !.results = r] :
          r \in Lists(MergePool, MaxListLen)}
  \cup {[NoProbe EXCEPT !.phase = "input", !.kind = "expand", !.claim = e[1], !.language = e[2]] :
          e \in ExpandedClaims \X Languages}

GatherInit ==
  /\ api_key_set = TRUE
  /\ brave_key_set = TRUE
  /\ ENABLE_WEB_SEARCH = TRUE
  /\ current = <<>>
  /\ running = 0
  /\ calls = [c \in CallIds |-> IdleCall]
  /\ table = <<>>
  /\ probe \in GatherProbes
  /\ http = NoHttp

\* _filter_search_results(results, claim, max_results)
Rank ==
  /\ probe.phase = "input"
  /\ probe.kind = "rank"
  /\ probe' = [probe EXCEPT !.phase = "done",
                 !.output = _filter_search_results(probe.results, probe.claim, probe.max_results)]
  /\ UNCHANGED <<api_key_set, brave_key_set, ENABLE_WEB_SEARCH, table, http, current, running, calls>>

\* the merge of _perform_web_searches applied to a list, and to its own output
Merge ==
  /\ probe.kind = "merge"
  /\ \/ /\ probe.phase = "input"
        /\ probe' = [probe EXCEPT !.phase = "done", !.output = DedupByUrl(probe.results, {})]
     \/ /\ probe.phase = "done"
        /\ probe' = [probe EXCEPT !.phase = "again", !.again = DedupByUrl(probe.output, {})]
  /\ UNCHANGED <<api_key_set, brave_key_set, ENABLE_WEB_SEARCH, table, http, current, running, calls>>

\* the queries _perform_web_searches builds for a claim
Expand ==
  /\ probe.phase = "input"
  /\ probe.kind = "expand"
  /\ probe' = [probe EXCEPT !.phase = "done",
                 !.output = SearchQueries(probe.claim, probe.language)]
  /\ UNCHANGED <<api_key_set, brave_key_set, ENABLE_WEB_SEARCH, table, http, current, running, calls>>

GatherNext == Rank \/ Merge \/ Expand

GatherSpec == GatherInit /\ [][GatherNext]_vars

(***************************************************************************)
(* The properties.                                                         *)
(***************************************************************************)

Done(c) == calls[c].pc = "done"

\* the urls of the evidence a call gathered
EvidenceUrls(c) == {JStr(calls[c].evidence[k].url) : k \in 1..Len(calls[c].evidence)}

\* C1: every source of the verdict a call returns carries the url of an
\* evidence item that this same call gathered.
C1_SourcesFromOwnEvidence ==
  \A c \in CallIds :
    Done(c) =>
      \A k \in 1..Len(calls[c].verdict.sources) :
        calls[c].verdict.sources[k].url \in EvidenceUrls(c)

\* C2: the parser never raises, whatever the text, and returns the parse
\* failure verdict when the direct, the cleaned and the repaired decoding all fail.
C2_ParserNeverRaises ==
  probe.phase = "parsed" =>
    /\ probe.result.kind = "return"
    /\ LET cleaned == ExtractJsonSpan(_clean_json_response(probe.text))
       IN (/\ JsonLoads(probe.text).st # "ok"
           /\ JsonLoads(cleaned).st # "ok"
           /\ JsonLoads(_repair_json_strings(cleaned)).st # "ok")
          => probe.result = ParseFailure

\* the responses whose text reports no canonical status
OffScale ==
  {t \in Responses : \A v \in VALID_STATUSES : ~Contains(t, "\"status\": " \o Quoted(v))}

\* C3: the status of every returned verdict is one of the four canonical
\* values, and a response that reports any other status yields Unverifiable.
C3_StatusCanonical ==
  \A c \in CallIds :
    Done(c) =>
      /\ calls[c].verdict.status \in VALID_STATUSES
      /\ calls[c].response \in OffScale => calls[c].verdict.status = "Unverifiable"

C3_Witness ==
  \E c \in CallIds :
    /\ Done(c)
    /\ calls[c].outcome = "parsed"
    /\ calls[c].response \in OffScale
    /\ calls[c].verdict.justification = JStr("The Berlin border opened.")
    /\ calls[c].verdict.status = "Unverifiable"

\* C4: when the model call has failed on every one of its attempts, the call
\* has returned exactly the default verdict.
C4_DefaultAfterRetries ==
  \A c \in CallIds :
    calls[c].failures = MAX_RETRIES =>
      /\ Done(c)
      /\ calls[c].verdict = Returned("Unverifiable", JStr("Analysis not available"),
                                     JStr("Default method used"), <<>>)

C4_Witness ==
  \E c \in CallIds :
    /\ Done(c)
    /\ calls[c].failures = MAX_RETRIES
    /\ calls[c].evidence # <<>>
    /\ calls[c].verdict.verification_method = JStr("Default method used")

\* C5: every call that was entered eventually returns a verdict, whatever the
\* searches, the model attempts and the model output do, after at most 8
\* searches and at most 3 model attempts.
C5_EveryCallReturns ==
  \A c \in CallIds :
    /\ [](calls[c].issued <= MAX_SEARCH_QUERIES /\ calls[c].attempt <= MAX_RETRIES)
    /\ (calls[c].pc # "idle") ~> (Done(c) /\ calls[c].verdict.kind = "return")

C5_Witness ==
  \E c \in CallIds :
    /\ Done(c)
    /\ calls[c].search_errors >= 1
    /\ calls[c].failures >= 1
    /\ calls[c].outcome = "parse_raised"
    /\ calls[c].verdict.kind = "return"

\* C6: at the moment a call returns, on the success path and on the failure
\* path alike, the current-evidence buffer is empty.
C6_BufferEmptyOnReturn ==
  [][\A c \in CallIds : (~Done(c) /\ calls'[c].pc = "done") => current' = <<>>]_vars

\* C7: the buffer a call reads when it parses the model output holds the
\* evidence that this same call gathered, also while other calls are in flight.
C7_ReadsOwnEvidence ==
  \A c \in CallIds :
    calls[c].outcome \in {"parsed", "parse_raised"} => calls[c].seen = calls[c].evidence

C7_Witness ==
  \E c \in CallIds :
    /\ calls[c].outcome = "parsed"
    /\ calls[c].overlapped
    /\ calls[c].response = UncitedAnswer
    /\ calls[c].evidence # <<>>
    /\ calls[c].seen = calls[c].evidence
    /\ calls[c].verdict.sources # <<>>

\* C8: a JSON text whose justification holds unescaped quotation marks
\* around the word no is repaired, and the verdict carries a justification
\* string that contains that word.
C8_RepairsUnescapedQuotes ==
  (probe.phase = "parsed" /\ probe.text \in UnescapedQuotes) =>
    /\ probe.result.kind = "return"
    /\ probe.result.justification.t = "str"
    /\ Contains(probe.result.justification.s, "no")

\* C9 as stated: a JSON object inside a code fence with prose before and
\* after it parses to the verdict of the bare object.
C9_FencedLikeBare ==
  (probe.phase = "parsed" /\ probe.kind = "fenced") =>
    probe.result = _parse_veracity_response(probe.bare, current)

\* C9: a JSON object inside a code fence with prose after it and prose
\* without an opening brace before it parses to the verdict of the bare object.
C9_FencedLikeBareNoBraceBefore ==
  (probe.phase = "parsed" /\ probe.kind = "fenced" /\ ~Contains(probe.before, "{")) =>
    probe.result = _parse_veracity_response(probe.bare, current)

C9_Witness ==
  /\ probe.phase = "parsed"
  /\ probe.kind = "fenced"
  /\ ~Contains(probe.before, "{")
  /\ Contains(probe.after, "}")
  /\ probe.bare = CitedAnswer
  /\ probe.result.status = "Factually Correct"
  /\ Len(probe.result.sources) = 1

\* C10 as stated: a well-formed verdict object, serialised and parsed, comes
\* back with the same status, justification and sources.
C10_RoundTrip ==
  (probe.phase = "parsed" /\ probe.kind = "dumped") =>
    /\ probe.result.status = VerdictOf(probe.object).status
    /\ probe.result.justification = VerdictOf(probe.object).justification
    /\ probe.result.sources = VerdictOf(probe.object).sources

\* C10: a well-formed verdict object whose sources all have a url, and which
\* has a source or is parsed under an empty buffer, comes back from
\* serialising and parsing with the same status, justification and sources.
C10_RoundTripWithLinkedSources ==
  (/\ probe.phase = "parsed"
   /\ probe.kind = "dumped"
   /\ \A k \in 1..Len(probe.object.sources) : probe.object.sources[k].url # ""
   /\ probe.object.sources # <<>> \/ current = <<>>) =>
    /\ probe.result.status = VerdictOf(probe.object).status
    /\ probe.result.justification = VerdictOf(probe.object).justification
    /\ probe.result.sources = VerdictOf(probe.object).sources

C10_Witness ==
  /\ probe.phase = "parsed"
  /\ probe.kind = "dumped"
  /\ probe.object.sources = <<WallSource, BareSource>>
  /\ Contains(probe.object.justification, "\"no\"")
  /\ current # <<>>
  /\ probe.result = VerdictOf(probe.object)

\* C11: when a call gathered no evidence, the verdict it returns has an empty
\* source list, whatever the model reports.
C11_NoEvidenceNoSources ==
  \A c \in CallIds :
    (Done(c) /\ calls[c].evidence = <<>>) => calls[c].verdict.sources = <<>>

\* the text decodes to an object whose sources array is empty
ReportsEmptySources(text) ==
  LET decoded == JsonLoads(text)
  IN /\ decoded.st = "ok"
     /\ decoded.val.t = "obj"
     /\ Get(decoded.val, "sources", JNone) = JArr(<<>>)

\* the justification the decoded object carries is a string, or it carries none
JustificationIsText(text) ==
  Get(JsonLoads(text).val, "justification", JStr("No analysis available")).t = "str"

Ranked == probe.phase = "done" /\ probe.kind = "rank"

\* the members of a list
Members(q) == {q[k] : k \in 1..Len(q)}

\* C13: the ranking returns at most max_results items, none with a snippet
\* shorter than 50 characters, none with an empty url or a url shorter than 5.
C13_RankedWithinLimits ==
  Ranked =>
    /\ Len(probe.output) <= probe.max_results
    /\ \A k \in 1..Len(probe.output) :
         /\ Len(probe.output[k].snippet) >= MIN_SNIPPET_LENGTH
         /\ probe.output[k].url # ""
         /\ Len(probe.output[k].url) >= MIN_URL_LENGTH

C13_Witness ==
  /\ Ranked
  /\ probe.results = <<ShortUrl, TieOne, NoUrl>>
  /\ probe.max_results = 2
  /\ probe.output = <<TieOne>>

\* where a result stands in the list handed to the ranking
Position(x) == CHOOSE k \in 1..Len(probe.results) : probe.results[k] = x

\* x is better than y: a higher score, or the same score and earlier in the input
Better(x, y) ==
  LET claim_words == SeqToSet(Split(ToLower(probe.claim)))
  IN \/ Score(x, claim_words) > Score(y, claim_words)
     \/ /\ Score(x, claim_words) = Score(y, claim_words)
        /\ Position(x) < Position(y)

\* C14: the items returned are in descending score order, items of equal
\* score in their input order, and they are the max_results best of the
\* accepted items.
C14_RankedBestFirst ==
  Ranked =>
    LET claim_words == SeqToSet(Split(ToLower(probe.claim)))
        accepted == {x \in Members(probe.results) : Accepted(x, claim_words)}
    IN /\ \A i, j \in 1..Len(probe.output) :
            i < j => Better(probe.output[i], probe.output[j])
       /\ Members(probe.output) \subseteq accepted
       /\ Len(probe.output) = Min(Cardinality(accepted), probe.max_results)
       /\ \A x \in accepted \ Members(probe.output), y \in Members(probe.output) : Better(y, x)

C14_Witness ==
  /\ Ranked
  /\ probe.results = <<TieTwo, TieOne, Best>>
  /\ probe.max_results = 2
  /\ probe.output = <<Best, TieTwo>>

\* C15: every item the ranking returns matches a claim word longer than 3
\* characters in its snippet or in its title.
C15_RankedMatchesClaim ==
  Ranked =>
    \A k \in 1..Len(probe.output) :
      \E w \in SeqToSet(Split(ToLower(probe.claim))) :
        /\ Len(w) > MIN_WORD_LENGTH_FOR_MATCHING
        /\ \/ Contains(ToLower(probe.output[k].snippet), w)
           \/ Contains(ToLower(probe.output[k].title), w)

\* C16: the query sequence of a claim is not empty and starts with the
\* claim itself, verbatim.
C16_ClaimSearchedFirst ==
  (probe.phase = "done" /\ probe.kind = "expand") =>
    /\ probe.output # <<>>
    /\ probe.output[1] = probe.claim

C16_Witness ==
  /\ probe.phase = "done"
  /\ probe.kind = "expand"
  /\ Len(probe.output) = MAX_SEARCH_QUERIES
  /\ probe.output[1] = probe.claim
  /\ probe.output[2] = "Chancellor Angela Merkel"

\* C19: the merge keeps, for each url, the first result that carries it, in
\* the order of the input, and merging its own output changes nothing.
C19_MergeKeepsFirstAndIsIdempotent ==
  probe.kind = "merge" =>
    LET first == {k \in 1..Len(probe.results) :
                    \A n \in 1..(k - 1) : probe.results[n].url # probe.results[k].url}
    IN /\ probe.phase \in {"done", "again"} =>
            /\ Len(probe.output) = Cardinality(first)
            /\ \A k \in first :
                 probe.output[Cardinality({n \in first : n <= k})] = probe.results[k]
       /\ probe.phase = "again" => probe.again = probe.output

C19_Witness ==
  /\ probe.kind = "merge"
  /\ probe.phase = "again"
  /\ probe.results = <<TieOne, Best, [TieOne EXCEPT !.title = "Mirror"]>>
  /\ probe.output = <<TieOne, Best>>
  /\ probe.again = probe.output

\* C17: a search that ends in a provider error adds no result and raises
\* nothing: the results gathered so far are kept, the next query is issued
\* if one remains, and otherwise the evidence is ranked from what was kept.
C17_SearchErrorsAbsorbed ==
  [][\A c \in CallIds :
       calls'[c].search_errors = calls[c].search_errors + 1 =>
         /\ calls'[c].all_search_results = calls[c].all_search_results
         /\ calls'[c].pc \in {"sleep", "model"}
         /\ calls'[c].pc = "sleep" <=> calls[c].issued < Len(calls[c].queries)
         /\ calls'[c].pc = "model" =>
              calls'[c].evidence = GatherEvidence(calls[c].all_search_results, calls[c].claim)]_vars

C17_Witness ==
  \E c \in CallIds :
    /\ calls[c].pc = "model"
    /\ calls[c].search_errors = 1
    /\ calls[c].issued = 2
    /\ calls[c].issued = Len(calls[c].queries)
    /\ calls[c].evidence # <<>>

\* C18: with web search disabled, by the missing credential or by the
\* setting, no call issues a search or gathers evidence, and an entered call
\* of an enabled service goes on to the model with the no-results context.
C18_DisabledSearchGathersNothing ==
  ~(ENABLE_WEB_SEARCH /\ brave_key_set) =>
    \A c \in CallIds :
      /\ calls[c].issued = 0
      /\ calls[c].all_search_results = <<>>
      /\ calls[c].evidence = <<>>
      /\ (calls[c].pc # "idle" /\ api_key_set) =>
           /\ calls[c].pc \in {"model", "done"}
           /\ calls[c].context = "[NONE] NO WEB SEARCH RESULTS FOUND"
      /\ (Done(c) /\ api_key_set) => calls[c].attempt >= 1

C18_Witness ==
  \E c \in CallIds :
    /\ ENABLE_WEB_SEARCH
    /\ ~brave_key_set
    /\ Done(c)
    /\ calls[c].outcome = "parsed"
    /\ calls[c].issued = 0
    /\ calls[c].attempt >= 1
    /\ calls[c].context = "[NONE] NO WEB SEARCH RESULTS FOUND"

C27_QueriesDistinctAndLongEnough ==
  (probe.phase = "done" /\ probe.kind = "expand") =>
    /\ \A i, j \in 1..Len(probe.output) : i # j => probe.output[i] # probe.output[j]
    /\ \A i \in 1..Len(probe.output) : Len(probe.output[i]) > MIN_QUERY_LENGTH

\* the claim "Angela Merkel" is searched twice: once as the claim, once as the
\* name extracted from it
C27_ClaimSearchedTwice ==
  /\ probe.phase = "done"
  /\ probe.kind = "expand"
  /\ probe.language = "en"
  /\ probe.output = <<"Angela Merkel", "Angela Merkel">>

\* The span of a text, stated over positions.  A character is escaped when an
\* odd run of backslashes, counted from the first brace, ends just before it.
\* An unescaped quotation mark opens or closes a string; a brace is counted
\* when it is outside strings and, with skip, not escaped.
SpanOf(s, skip) ==
  LET f == Find(s, "{")
      last == RFind(s, "}")
      escaped == {k \in f..Len(s) :
                    LET runs == {m \in f..k : \A n \in m..(k - 1) : Ch(s, n) = "\\"}
                    IN (k - (CHOOSE m \in runs : \A n \in runs : m <= n)) % 2 = 1}
      quotes == {k \in f..Len(s) : Ch(s, k) = "\"" /\ k \notin escaped}
      outside == {k \in f..Len(s) : k \notin quotes /\ Cardinality({n \in quotes : n < k}) % 2 = 0}
      counted == {k \in outside : skip => k \notin escaped}
      opening == {k \in counted : Ch(s, k) = "{"}
      closing == {k \in counted : Ch(s, k) = "}"}
      balanced == {k \in closing : Cardinality({n \in opening : n <= k})
                                     = Cardinality({n \in closing : n <= k})}
  IN IF f = 0 THEN s
     ELSE IF balanced # {} THEN Slice(s, f, CHOOSE k \in balanced : \A n \in balanced : k <= n)
     ELSE IF last > f THEN Slice(s, f, last)
     ELSE s

\* C28 as stated: the span cut from a text that is not directly parsable
\* starts at the first opening brace of the cleaned text and ends at the
\* first closing brace at which the depth of the braces outside strings is
\* back at zero, an escaped quotation mark neither opening nor closing a
\* string; without such a brace it ends at the last closing brace.
C28_SpanBalancedOutsideStrings ==
  probe.phase = "span" =>
    LET cleaned == _clean_json_response(probe.text)
    IN (Find(cleaned, "{") # 0 /\ RFind(cleaned, "}") > Find(cleaned, "{")) =>
         probe.output = SpanOf(cleaned, FALSE)

\* C28: as above, where the character after an unescaped backslash is passed
\* over outside strings as well, so that an escaped brace is not counted; a
\* text with no opening brace, or with no closing brace after the first
\* opening one, is left whole.
C28_SpanBalancedSkippingEscapes ==
  probe.phase = "span" =>
    probe.output = SpanOf(_clean_json_response(probe.text), TRUE)

C28_Witness ==
  /\ probe.phase = "span"
  /\ probe.text = "{\"j\": \"say \\\"}\\\" now\"} rest }"
  /\ probe.output = "{\"j\": \"say \\\"}\\\" now\"}"

\* the scan of a text whose depth never returns to zero falls back to the
\* last closing brace
C28_FallbackReached ==
  /\ probe.phase = "span"
  /\ probe.text = "pre {\"a\": \"open } string"
  /\ probe.output = "{\"a\": \"open }"

\* the positions of the buffer whose title or snippet holds, in lower case,
\* at least 2 distinct words of the lower-cased justification that are longer
\* than 4 characters
Mentioned(justification, buffered) ==
  LET words == {w \in SeqToSet(Split(ToLower(justification))) : Len(w) > 4}
  IN {k \in 1..Len(buffered) :
        Cardinality({w \in words : \/ Contains(ToLower(buffered[k].title), w)
                                   \/ Contains(ToLower(buffered[k].snippet), w)}) >= 2}

\* title and url of an evidence item with the first 200 characters of its snippet
Cited(item) ==
  [title |-> JStr(item.title), url |-> JStr(item.url),
   snippet |-> JStr(SubSeq(item.snippet, 1, IF Len(item.snippet) < 200 THEN Len(item.snippet)
                                            ELSE 200))]

\* C29: reconciliation returns, in the order of the buffer, exactly the items
\* mentioned by the justification, each with its snippet cut to 200
\* characters; when no item is mentioned it returns the first min(2, n) items.
C29_ReconciledByMention ==
  probe.phase = "mapped" =>
    LET hits == Mentioned(probe.text, current)
        n == Len(current)
    IN IF hits # {}
       THEN /\ Len(probe.output) = Cardinality(hits)
            /\ \A k \in hits :
                 probe.output[Cardinality({m \in hits : m <= k})] = Cited(current[k])
       ELSE /\ Len(probe.output) = (IF n < 2 THEN n ELSE 2)
            /\ \A k \in 1..Len(probe.output) : probe.output[k] = Cited(current[k])

\* the justification mentions the second item of the buffer only, whose
\* snippet is longer than 200 characters
C29_Witness ==
  /\ probe.phase = "mapped"
  /\ Len(current) = 2
  /\ Mentioned(probe.text, current) = {2}
  /\ Len(current[2].snippet) > 200
  /\ Len(probe.output) = 1
  /\ probe.output[1].url = JStr(current[2].url)
  /\ Len(probe.output[1].snippet.s) = 200

\* no item of a buffer of three is mentioned: the first two are returned
C29_FallbackReached ==
  /\ probe.phase = "mapped"
  /\ Len(current) = 3
  /\ Mentioned(probe.text, current) = {}
  /\ Len(probe.output) = 2

\* the value of a key of a decoded object, or a string of no characters
Field(object, key) == Get(object, key, JStr(""))

\* C30: when the parser has decoded an object, the sources it holds before
\* reconciliation are the entries of the object's sources value that are
\* objects with a url of at least one character, in their order, each
\* reduced to title, url and snippet with a missing title or snippet empty; a
\* sources value that is not a list gives none.  They are the sources of the
\* verdict unless there are none and the buffer holds evidence.
C30_SourcesNormalised ==
  (/\ probe.phase = "parsed"
   /\ JsonLoads(probe.text).st = "ok"
   /\ JsonLoads(probe.text).val.t = "obj") =>
    LET reported == Get(JsonLoads(probe.text).val, "sources", JArr(<<>>))
        kept == IF reported.t # "arr" THEN {}
                ELSE {k \in 1..Len(reported.a) :
                        /\ reported.a[k].t = "obj"
                        /\ HasKey(reported.a[k], "url")
                        /\ Field(reported.a[k], "url") # JStr("")}
    IN /\ Len(probe.output) = Cardinality(kept)
       /\ \A k \in kept :
            probe.output[Cardinality({m \in kept : m <= k})]
              = [title |-> Field(reported.a[k], "title"),
                 url |-> Field(reported.a[k], "url"),
                 snippet |-> Field(reported.a[k], "snippet")]
       /\ (kept # {} \/ current = <<>>) =>
            /\ probe.result.kind = "return"
            /\ probe.result.sources = probe.output

C30_Witness ==
  /\ probe.phase = "parsed"
  /\ Contains(probe.text, MixedSources)
  /\ current # <<>>
  /\ probe.output
       = <<[title |-> JStr(""), url |-> JStr("https://b.example/y"), snippet |-> JStr("")],
           [title |-> JStr("Full"), url |-> JStr("https://c.example/z"),
            snippet |-> JStr("text")]>>
  /\ probe.result.sources = probe.output

\* a sources value that is a string gives no sources
C30_NotAListReached ==
  /\ probe.phase = "parsed"
  /\ Contains(probe.text, "\"sources\": \"none\"")
  /\ current # <<>>
  /\ probe.result.status = "Untruth"
  /\ probe.output = <<>>

\* the searches one verification of a claim is to make: one for each of the
\* first 8 strings of the claim followed by the queries derived from it, each
\* asking for 3 results
SearchesDue(claim, language) ==
  LET all == <<claim>> \o _extract_all_search_queries(claim, language)
  IN [k \in 1..(IF Len(all) < 8 THEN Len(all) ELSE 8) |-> [query |-> all[k], count |-> 3]]

\* C23: the searches a verification has issued are the first of those due, in
\* their order, never more than 8; once it has passed on to the model, or
\* returned, with the service and web search enabled, they are exactly those
\* due.
C23_SearchesCapped ==
  \A c \in CallIds :
    calls[c].pc # "idle" =>
      LET due == SearchesDue(calls[c].claim, calls[c].language)
      IN /\ Len(calls[c].searched) <= 8
         /\ Len(calls[c].searched) <= Len(due)
         /\ calls[c].searched = SubSeq(due, 1, Len(calls[c].searched))
         /\ (calls[c].pc \in {"model", "done"} /\ enabled /\ web_search_enabled) =>
              calls[c].searched = due

\* a claim that yields 12 queries has been verified with 8 searches
C23_Witness ==
  /\ Done(1)
  /\ calls[1].language = "en"
  /\ Len(<<calls[1].claim>> \o _extract_all_search_queries(calls[1].claim, "en")) = 12
  /\ Len(calls[1].searched) = 8
  /\ calls[1].searched[1].query = calls[1].claim
  /\ calls[1].searched[8].query = "Friedrich Merz book autobiography"

\* C24: the searches of one verification are sequential.  At most one search
\* of a call is in flight, a search is issued only when every earlier search
\* of the call has returned, and every search but the first is issued at the
\* end of a pacing delay: the delays of a call number one less than its
\* searches.
C24_SearchesSequentialAndPaced ==
  /\ [](\A c \in CallIds :
          /\ calls[c].issued - calls[c].returned \in {0, 1}
          /\ calls[c].pc = "search" <=> calls[c].issued = calls[c].returned + 1
          /\ calls[c].slept = (IF calls[c].issued = 0 THEN 0 ELSE calls[c].issued - 1))
  /\ [][\A c \in CallIds :
          calls'[c].issued # calls[c].issued =>
            /\ calls'[c].issued = calls[c].issued + 1
            /\ calls[c].returned = calls[c].issued
            /\ calls[c].issued >= 1 =>
                 /\ calls[c].pc = "sleep"
                 /\ calls'[c].slept = calls[c].slept + 1]_vars

\* both searches of a claim with two queries have returned, one delay between them
C24_Witness ==
  \E c \in CallIds :
    /\ calls[c].pc = "model"
    /\ calls[c].issued = 2
    /\ calls[c].returned = 2
    /\ calls[c].slept = 1

\* C25: the model call makes at most MAX_RETRIES attempts; a text of at least
\* one character ends it at once, so that a verdict parsed from a response
\* follows exactly one attempt more than there were failures; after each
\* failed attempt but the last it waits, 1 and then 2; after the last failed
\* attempt it raises, which analyze_veracity turns into the default verdict.
C25_RetriesWithDoublingDelay ==
  \A c \in CallIds :
    /\ calls[c].attempt <= MAX_RETRIES
    /\ calls[c].failures <= calls[c].attempt
    /\ calls[c].delays = SubSeq(<<1, 2>>, 1, Len(calls[c].delays))
    /\ Len(calls[c].delays)
         = (IF calls[c].failures = MAX_RETRIES THEN MAX_RETRIES - 1 ELSE calls[c].failures)
    /\ calls[c].pc = "model" => calls[c].failures = calls[c].attempt
    /\ calls[c].outcome \in {"parsed", "parse_raised"} =>
         /\ calls[c].response # ""
         /\ calls[c].attempt = calls[c].failures + 1
    /\ calls[c].outcome = "model_failed" <=> calls[c].failures = MAX_RETRIES

\* the third attempt has failed after delays of 1 and 2
C25_Witness ==
  \E c \in CallIds :
    /\ Done(c)
    /\ calls[c].outcome = "model_failed"
    /\ calls[c].attempt = 3
    /\ calls[c].delays = <<1, 2>>

\* the third attempt has succeeded after two failures
C25_ThirdAttemptSucceeds ==
  \E c \in CallIds :
    /\ Done(c)
    /\ calls[c].outcome = "parsed"
    /\ calls[c].attempt = 3
    /\ calls[c].failures = 2
    /\ calls[c].delays = <<1, 2>>

\* C26: a verification is suspended at the model call: while one call is in
\* its model call, another call whose search or pacing delay has completed
\* can go on.
C26_ModelCallSuspends ==
  \A c, d \in CallIds :
    (c # d /\ calls[c].pc = "model" /\ calls[d].pc \in {"search", "sleep"}) =>
      ENABLED Resume(d)

\* a call waits for its search while the other is in its model call
C26_WaitingBehindModelCall ==
  /\ calls[1].pc = "model"
  /\ calls[1].failures = 1
  /\ calls[2].pc = "search"
  /\ ~ENABLED Resume(2)

\* the response reports a failed analysis: Opinion, not spam, no veracity and
\* no nuance analysis, and an error text
ReportsFailure(response) ==
  /\ response.post_analysis = [post_type |-> "Opinion", is_spam |-> FALSE]
  /\ response.veracity_analysis = None
  /\ response.nuance_analysis = None
  /\ response.processing_error # None

\* the exchange answered 200 with the post_id and the language of the
\* request, and with the failure report when a stage raised
AnsweredInFull(exchange) ==
  /\ exchange.status_code = 200
  /\ exchange.response # None
  /\ exchange.response[1].post_id = Get(exchange.body, "post_id", JNone).s
  /\ exchange.response[1].language = Get(exchange.body, "language", JStr("en")).s
  /\ exchange.raised # "" => ReportsFailure(exchange.response[1])

C21_AnalysedReached ==
  /\ http.last.endpoint = "evaluate"
  /\ http.last.status_code = 200
  /\ http.last.raised = ""
  /\ http.last.response[1].veracity_analysis # None
  /\ http.last.response[1].veracity_analysis[1].status = "Factually Correct"
  /\ http.last.response[1].nuance_analysis # None
  /\ http.last.response[1].processing_error = None

====
